---- MODULE Spec2Model ----
(***************************************************************************)
(* Model of the trading-plan core of near-swap: the plan Storage, the plan *)
(* Manager (Registry) and the Executor's per-plan monitor (Scheduler).     *)
(*                                                                         *)
(* Amounts.  The program keeps amounts as decimal strings, parses them     *)
(* with strconv.ParseFloat and writes them back with "%.8f".  The model    *)
(* counts an amount in ticks, Unit ticks making 0.00000001 (the smallest   *)
(* step "%.8f" can write), so that an amount finer than the format is      *)
(* representable and Fmt8 really rounds.  The string "0" is the amount 0.  *)
(* Float arithmetic is taken as exact.                                     *)
(*                                                                         *)
(* Dates.  time.Now().Format("2006-01-02") is the variable today, a day    *)
(* number; the empty LastExecutionDate of a new plan is day 0.             *)
(***************************************************************************)
EXTENDS Integers, Sequences, FiniteSets, TLC

VARIABLES
    plans,        \* Storage.plans: plan name -> TradingPlan
    today,        \* the wall-clock date
    ret,          \* the error the last Manager call returned, "" for none
    running,      \* Executor.running
    activePlans,  \* Executor.activePlans: plan name -> monitor goroutine
    mon,          \* the monitor goroutines: id -> [name, pc, stopped, amt, eid]
    sent,         \* the deposits the Depositor sent: [name, date, eid, amount, funds]
    disk,         \* the content of the plan file, NoFile while it does not exist
    tmp,          \* the content of the temporary file of Storage.save
    tasks,        \* Manager calls in flight in concurrent goroutines
    log,          \* the last calls that returned: [op, name, err]
    call,         \* the last Pricer call: its arguments and what it returned
    pass,         \* the reconciliation goroutine of the Executor
    ver           \* the settlement verifiers, the clock in hours and the Quote Service

vars == <<plans, today, ret, running, activePlans, mon, sent, disk, tmp, tasks, log, call,
          pass, ver>>

----------------------------------------------------------------------------
(* Bounds *)

MaxHist == 1      \* executions recorded per plan
MaxDay == 2       \* dates run over 1..MaxDay
MaxMon == 1       \* monitor goroutines alive at the same time
MaxSent == 2      \* executions a monitor records for one plan
DocParts == 2     \* writes it takes to put a document into a file
MaxTask == 2      \* Manager calls running at the same time
MaxLog == 3       \* returned Manager calls the log remembers
MaxAdds == 2      \* executions added to a plan while the days pass

Names == {"p1"}

(* Program constants *)

Unit == 3         \* ticks in 0.00000001, the resolution of "%.8f"
Tolerance == Unit \* the literal 0.00000001 of AddExecution's completion test

StatusActive == "active"
StatusPaused == "paused"
StatusCompleted == "completed"
StatusCancelled == "cancelled"
PlanStatuses == {StatusActive, StatusPaused, StatusCompleted, StatusCancelled}

ExecutionPending == "pending"
ExecutionDeposited == "deposited"
ExecutionCompleted == "completed"
ExecutionFailed == "failed"
ExecStatuses == {ExecutionPending, ExecutionDeposited, ExecutionCompleted, ExecutionFailed}

----------------------------------------------------------------------------
(* Pure helpers *)

\* fmt.Sprintf("%.8f", x) followed by ParseFloat: x rounded to the nearest
\* multiple of 0.00000001 (Unit is odd, so there are no ties).
Fmt8(x) == ((x + (Unit \div 2)) \div Unit) * Unit

\* validateAmount: "" and malformed strings are the input 0 here.
validateAmount(a) == a > 0

RECURSIVE SumSeq(_)
SumSeq(s) == IF s = <<>> THEN 0 ELSE Head(s) + SumSeq(Tail(s))

\* The plan CreatePlan builds (manager.go 72-95).
NewPlan(total, perTrade, perDay) ==
    [ status        |-> StatusPaused,
      total         |-> total,
      perTrade      |-> perTrade,
      perDay        |-> perDay,
      totalExecuted |-> 0,
      remaining     |-> total,
      history       |-> <<>>,
      count         |-> 0,
      lastDate      |-> 0,
      todayExecuted |-> 0 ]

\* CreateError without the comparison of amountPerTrade with amountPerDay.
CreateErrorNoOrder(name, total, perTrade, perDay) ==
    IF name \in DOMAIN plans THEN "exists"
    ELSE IF ~validateAmount(total) THEN "invalid total amount"
    ELSE IF ~validateAmount(perTrade) THEN "invalid amount per trade"
    ELSE IF ~validateAmount(perDay) THEN "invalid amount per day"
    ELSE IF perDay > total THEN "amount per day cannot be greater than total amount"
    ELSE ""

\* The error CreatePlan returns before touching the store, "" for none.
CreateError(name, total, perTrade, perDay) ==
    IF name \in DOMAIN plans THEN "exists"
    ELSE IF ~validateAmount(total) THEN "invalid total amount"
    ELSE IF ~validateAmount(perTrade) THEN "invalid amount per trade"
    ELSE IF ~validateAmount(perDay) THEN "invalid amount per day"
    ELSE IF perTrade > perDay THEN "amount per trade cannot be greater than amount per day"
    ELSE IF perDay > total THEN "amount per day cannot be greater than total amount"
    ELSE ""

\* An Execution as the caller of AddExecution fills it in; addr is its
\* DepositAddress and at the hour of its Timestamp, which stays 0 in the
\* specifications that follow the date only.
NewExecution(amount, status) ==
    [ id |-> 0, date |-> 0, amount |-> amount, status |-> status,
      tx |-> "", err |-> "", swap |-> "", done |-> 0, addr |-> "", at |-> 0 ]

\* AddExecutionPlan without the reset of TodayExecuted on a new date.
AddExecutionPlanNoReset(plan, execution, id, now) ==
    LET e  == [execution EXCEPT !.id = id, !.date = now]
        p1 == [plan EXCEPT !.history = Append(@, e), !.count = @ + 1]
        p2 == [p1 EXCEPT !.lastDate = now]
        remaining == p2.remaining - e.amount
        p3 == [p2 EXCEPT !.totalExecuted = Fmt8(@ + e.amount),
                         !.remaining = Fmt8(remaining),
                         !.todayExecuted = Fmt8(@ + e.amount)]
    IN  IF e.status \in {ExecutionCompleted, ExecutionDeposited}
        THEN IF remaining <= Tolerance
             THEN [p3 EXCEPT !.status = StatusCompleted, !.remaining = 0]
             ELSE p3
        ELSE p2

\* AddExecutionPlan without the completion test that resets RemainingAmount.
AddExecutionPlanNoClamp(plan, execution, id, now) ==
    LET e  == [execution EXCEPT !.id = id, !.date = now]
        p1 == [plan EXCEPT !.history = Append(@, e), !.count = @ + 1]
        p2 == IF p1.lastDate # now
              THEN [p1 EXCEPT !.lastDate = now, !.todayExecuted = 0]
              ELSE p1
        remaining == p2.remaining - e.amount
        p3 == [p2 EXCEPT !.totalExecuted = Fmt8(@ + e.amount),
                         !.remaining = Fmt8(remaining),
                         !.todayExecuted = Fmt8(@ + e.amount)]
    IN  IF e.status \in {ExecutionCompleted, ExecutionDeposited} THEN p3 ELSE p2

\* Manager.AddExecution, lines 204-243, on the plan object.
AddExecutionPlan(plan, execution, id, now) ==
    LET e  == [execution EXCEPT !.id = id, !.date = now]
        p1 == [plan EXCEPT !.history = Append(@, e), !.count = @ + 1]
        p2 == IF p1.lastDate # now
              THEN [p1 EXCEPT !.lastDate = now, !.todayExecuted = 0]
              ELSE p1
        remaining == p2.remaining - e.amount
        p3 == [p2 EXCEPT !.totalExecuted = Fmt8(@ + e.amount),
                         !.remaining = Fmt8(remaining),
                         !.todayExecuted = Fmt8(@ + e.amount)]
    IN  IF e.status \in {ExecutionCompleted, ExecutionDeposited}
        THEN IF remaining <= Tolerance
             THEN [p3 EXCEPT !.status = StatusCompleted, !.remaining = 0]
             ELSE p3
        ELSE p2

\* Index of the first execution with the given id, 0 if there is none.
FindExecution(plan, id) ==
    IF \E i \in 1..Len(plan.history) : plan.history[i].id = id
    THEN CHOOSE i \in 1..Len(plan.history) :
            /\ plan.history[i].id = id
            /\ \A j \in 1..(i-1) : plan.history[j].id # id
    ELSE 0

\* UpdateExecutionStatusPlan keeping nothing but the patched execution.
UpdateExecutionStatusPlanAlone(plan, id, status, txHash, errorMsg) ==
    LET i == FindExecution(plan, id)
    IN  IF i = 0 THEN plan
        ELSE [plan EXCEPT !.history =
                << [plan.history[i] EXCEPT
                       !.status = status,
                       !.tx = IF txHash # "" THEN txHash ELSE @,
                       !.err = IF errorMsg # "" THEN errorMsg ELSE @] >>]

\* Manager.UpdateExecutionStatus, lines 257-271, on the plan object.
UpdateExecutionStatusPlan(plan, id, status, txHash, errorMsg) ==
    LET i == FindExecution(plan, id)
    IN  IF i = 0 THEN plan
        ELSE [plan EXCEPT !.history[i] =
                [@ EXCEPT !.status = status,
                          !.tx = IF txHash # "" THEN txHash ELSE @,
                          !.err = IF errorMsg # "" THEN errorMsg ELSE @]]

\* UpdateExecutionWithSwapStatusPlan taking only SUCCESS and FAILED for final.
UpdateExecutionWithSwapStatusPlanTwo(plan, id, swapStatus, now) ==
    LET i == FindExecution(plan, id)
    IN  IF i = 0 THEN plan
        ELSE [plan EXCEPT !.history[i] =
                [@ EXCEPT !.swap = swapStatus,
                          !.status =
                             IF swapStatus = "SUCCESS" THEN ExecutionCompleted
                             ELSE IF swapStatus = "FAILED" THEN ExecutionFailed
                             ELSE @,
                          !.done = IF swapStatus = "SUCCESS" THEN now ELSE @]]

\* Manager.UpdateExecutionWithSwapStatus, lines 327-353, on the plan object;
\* done is the date of CompletionTime, 0 while it is nil.
UpdateExecutionWithSwapStatusPlan(plan, id, swapStatus, now) ==
    LET i == FindExecution(plan, id)
    IN  IF i = 0 THEN plan
        ELSE [plan EXCEPT !.history[i] =
                [@ EXCEPT !.swap = swapStatus,
                          !.status =
                             IF swapStatus \in {"SUCCESS", "COMPLETED"}
                             THEN ExecutionCompleted
                             ELSE IF swapStatus \in {"FAILED", "REFUNDED"}
                             THEN ExecutionFailed
                             ELSE @,
                          !.done = IF swapStatus \in {"SUCCESS", "COMPLETED"}
                                   THEN now ELSE @]]

\* TradingPlan.CanExecute
CanExecute(plan) == plan.status = StatusActive /\ plan.remaining # 0

\* CanExecuteToday without the test of the daily limit.
CanExecuteTodayNoLimit(plan, now) == CanExecute(plan)

\* TradingPlan.CanExecuteToday
CanExecuteToday(plan, now) ==
    IF ~CanExecute(plan) THEN FALSE
    ELSE IF plan.lastDate # now THEN TRUE
    ELSE plan.todayExecuted < plan.perDay

\* TradingPlan.GetRemainingDailyAmount
GetRemainingDailyAmount(plan, now) ==
    IF plan.lastDate # now THEN plan.perDay
    ELSE IF plan.perDay - plan.todayExecuted < 0 THEN 0
    ELSE Fmt8(plan.perDay - plan.todayExecuted)

Min(a, b) == IF b < a THEN b ELSE a

\* ExecuteAmount taking AmountPerTrade whatever remains.
ExecuteAmountPerTrade(plan, now) == Fmt8(plan.perTrade)

\* The trade size executeTrade computes (part_005 235-248).
ExecuteAmount(plan, now) ==
    Fmt8(Min(Min(plan.perTrade, GetRemainingDailyAmount(plan, now)),
             plan.remaining))

----------------------------------------------------------------------------
(* Inputs *)

\* Amount strings a caller passes: "0", and one and two times 0.00000001.
AmountInputs == {0, Unit, 2 * Unit}

\* Amounts of the executions a caller of AddExecution records; the first is
\* finer than "%.8f" can write, the last exceeds every plan's total.
ExecAmounts == {1, Unit, 3 * Unit}

\* Patches a caller of UpdateExecutionStatus applies, <<status, txHash,
\* errorMsg>>, here with no transaction id and no message to record.
StatusPatches == { <<ExecutionDeposited, "", "">>, <<ExecutionFailed, "", "">> }

\* The patches handleAutoDeposit applies after the Depositor answered.
DepositedPatch == <<ExecutionDeposited, "tx", "">>
FailedPatch == <<ExecutionFailed, "", "e">>

\* Settlement strings of the Quote Service.
SwapInputs == {"SUCCESS", "FAILED"}

\* What a Manager call leaves in ret (the operation and the plan name are not kept).
Ret(op, name, err) == err

\* Storage.save: the write of the document either succeeds or fails.
SaveErr(saveOk) == IF saveOk THEN "" ELSE "save failed"

\* uuid.New: ids are only ever compared for equality, so the fresh id is the
\* least number above every id in use.
UsedIds ==
    UNION { { plans[n].history[i].id : i \in 1..Len(plans[n].history) } : n \in DOMAIN plans }
      \cup { mon[m].eid : m \in DOMAIN mon }
NewId == 1 + (CHOOSE x \in UsedIds \cup {0} : \A y \in UsedIds \cup {0} : y <= x)

SchedUnchanged == UNCHANGED <<running, activePlans, mon, sent>>

\* What no Manager or Executor step of the specifications below touches.
AuxUnchanged == UNCHANGED <<tmp, tasks, call, pass, ver>>

\* A file: whether it exists, and the parts of a document written into it.
NoFile == [exists |-> FALSE, data |-> <<>>]

\* json.MarshalIndent of the plans and os.WriteFile of the result: the
\* document, written as DocParts parts one after the other.
Encode(p) == [exists |-> TRUE, data |-> [i \in 1..DocParts |-> [doc |-> p, part |-> i]]]

\* A file json.Unmarshal accepts: every part of one document, in order.
Complete(f) ==
    /\ f.exists
    /\ Len(f.data) = DocParts
    /\ \A i \in 1..DocParts : f.data[i].part = i /\ f.data[i].doc = f.data[1].doc

\* Storage.save as one step of a Manager call, in the specifications that
\* follow the plan file: the call returned no error exactly when save was
\* reached and replaced the file.  The Manager and monitor actions below say
\* nothing of disk and log; the specification that takes them says it.
Persist == disk' = IF ret' = "" THEN Encode(plans') ELSE disk

----------------------------------------------------------------------------
(* Manager (Registry) operations.  Storage.Get returns the pointer held in  *)
(* the map, so a Manager operation changes the stored plan in place and    *)
(* then calls Storage.Update, which only rewrites the document.            *)

\* Manager.CreatePlan and Storage.Create
CreatePlan(name, total, perTrade, perDay, saveOk) ==
    LET err == CreateError(name, total, perTrade, perDay)
    IN  /\ IF err # ""
           THEN /\ plans' = plans
                /\ ret' = Ret("create", name, err)
           ELSE /\ plans' = [n \in DOMAIN plans \cup {name} |->
                               IF n = name THEN NewPlan(total, perTrade, perDay)
                               ELSE plans[n]]
                /\ ret' = Ret("create", name, SaveErr(saveOk))
        /\ UNCHANGED today
        /\ SchedUnchanged
        /\ AuxUnchanged

\* The error StartPlan returns before changing the plan, "" for none.
StartError(name) ==
    IF name \notin DOMAIN plans THEN "not found"
    ELSE IF plans[name].status = StatusActive THEN "already active"
    ELSE IF plans[name].status = StatusCompleted THEN "already completed"
    ELSE ""

\* Manager.StartPlan
StartPlan(name, saveOk) ==
    LET err == StartError(name)
    IN  /\ IF err # ""
           THEN /\ plans' = plans
                /\ ret' = Ret("start", name, err)
           ELSE /\ plans' = [plans EXCEPT ![name].status = StatusActive]
                /\ ret' = Ret("start", name, SaveErr(saveOk))
        /\ UNCHANGED today
        /\ SchedUnchanged
        /\ AuxUnchanged

\* The error StopPlan returns before changing the plan, "" for none.
StopError(name) ==
    IF name \notin DOMAIN plans THEN "not found"
    ELSE IF plans[name].status # StatusActive THEN "not active"
    ELSE ""

\* Manager.StopPlan
StopPlan(name, saveOk) ==
    LET err == StopError(name)
    IN  /\ IF err # ""
           THEN /\ plans' = plans
                /\ ret' = Ret("stop", name, err)
           ELSE /\ plans' = [plans EXCEPT ![name].status = StatusPaused]
                /\ ret' = Ret("stop", name, SaveErr(saveOk))
        /\ UNCHANGED today
        /\ SchedUnchanged
        /\ AuxUnchanged

\* Manager.CancelPlan
CancelPlan(name, saveOk) ==
    /\ IF name \notin DOMAIN plans
       THEN /\ plans' = plans
            /\ ret' = Ret("cancel", name, "not found")
       ELSE /\ plans' = [plans EXCEPT ![name].status = StatusCancelled]
            /\ ret' = Ret("cancel", name, SaveErr(saveOk))
    /\ UNCHANGED today
    /\ SchedUnchanged
    /\ AuxUnchanged

\* DeleteError without the refusal of an Active plan.
DeleteErrorAnyStatus(name) ==
    IF name \notin DOMAIN plans THEN "not found"
    ELSE ""

\* The error DeletePlan returns before touching the store, "" for none.
DeleteError(name) ==
    IF name \notin DOMAIN plans THEN "not found"
    ELSE IF plans[name].status = StatusActive THEN "active, stop it first"
    ELSE ""

\* Manager.DeletePlan and Storage.Delete
DeletePlan(name, saveOk) ==
    LET err == DeleteError(name)
    IN  /\ IF err # ""
           THEN /\ plans' = plans
                /\ ret' = Ret("delete", name, err)
           ELSE /\ plans' = [n \in DOMAIN plans \ {name} |-> plans[n]]
                /\ ret' = Ret("delete", name, SaveErr(saveOk))
        /\ UNCHANGED today
        /\ SchedUnchanged
        /\ AuxUnchanged

\* Manager.AddExecution
AddExecutionCall(name, amount, status, saveOk) ==
    /\ IF name \notin DOMAIN plans
       THEN /\ plans' = plans
            /\ ret' = Ret("add", name, "not found")
       ELSE /\ plans' = [plans EXCEPT ![name] =
                           AddExecutionPlan(@, NewExecution(amount, status), NewId, today)]
            /\ ret' = Ret("add", name, SaveErr(saveOk))
    /\ UNCHANGED today
    /\ SchedUnchanged
    /\ AuxUnchanged

\* Manager.AddExecution while the history is shorter than MaxHist
AddExecution(name, amount, status, saveOk) ==
    /\ name \in DOMAIN plans => Len(plans[name].history) < MaxHist
    /\ AddExecutionCall(name, amount, status, saveOk)

\* Manager.UpdateExecutionStatus
UpdateExecutionStatus(name, id, patch, saveOk) ==
    /\ IF name \notin DOMAIN plans
       THEN /\ plans' = plans
            /\ ret' = Ret("status", name, "not found")
       ELSE IF FindExecution(plans[name], id) = 0
       THEN /\ plans' = plans
            /\ ret' = Ret("status", name, "execution not found")
       ELSE /\ plans' = [plans EXCEPT ![name] =
                           UpdateExecutionStatusPlan(@, id, patch[1], patch[2], patch[3])]
            /\ ret' = Ret("status", name, SaveErr(saveOk))
    /\ UNCHANGED today
    /\ SchedUnchanged
    /\ AuxUnchanged

\* Manager.UpdateExecutionWithSwapStatus
UpdateExecutionWithSwapStatus(name, id, swapStatus, saveOk) ==
    /\ IF name \notin DOMAIN plans
       THEN /\ plans' = plans
            /\ ret' = Ret("settle", name, "not found")
       ELSE IF FindExecution(plans[name], id) = 0
       THEN /\ plans' = plans
            /\ ret' = Ret("settle", name, "execution not found")
       ELSE /\ plans' = [plans EXCEPT ![name] =
                           UpdateExecutionWithSwapStatusPlan(@, id, swapStatus, today)]
            /\ ret' = Ret("settle", name, SaveErr(saveOk))
    /\ UNCHANGED today
    /\ SchedUnchanged
    /\ AuxUnchanged

\* The calendar date changes (midnight passes).
AdvanceDay ==
    /\ today < MaxDay
    /\ today' = today + 1
    /\ ret' = Ret("none", "", "")
    /\ UNCHANGED plans
    /\ SchedUnchanged
    /\ UNCHANGED <<disk, log>>
    /\ AuxUnchanged

----------------------------------------------------------------------------
(* Specification of the Registry: callers apply Manager operations in any  *)
(* order within one day; no Executor runs.                                 *)

NoMon == [name |-> "", pc |-> "none", stopped |-> FALSE, amt |-> 0, eid |-> 0]

\* No Manager call in flight.  A call in flight has its operation, its plan
\* name, its position pc, the error it returned, the pointer Storage.Get gave
\* it (ptr: -1 none, 0 the object the map holds under the name, k the object
\* call k took out of the map) and the object it took out of the map (gone).
\* Inside Storage.save it has the marshalled document (buf), the file its
\* descriptor is open on (fd: "" none, "tmp", "disk" once the temporary file
\* was renamed under it, "gone" once that file was replaced in turn) and the
\* number of parts it wrote (off).
NoTask ==
    [op |-> "", name |-> "", pc |-> "idle", err |-> "", ptr |-> -1, gone |-> <<>>,
     buf |-> <<>>, fd |-> "", off |-> 0]

\* No Pricer call made.
NoCall == [fn |-> ""]

\* The reconciliation goroutine outside a pass, Executor.stopChan open.  In a
\* pass (pc "read") it holds the plans GetActivePlans returned (active);
\* closed says that Executor.stopChan is closed.
NoPass == [pc |-> "idle", active |-> {}, closed |-> FALSE]

\* A verifier goroutine that was not started: the execution it polls (plan
\* name and id, and the deposit address it asks about) and, for the
\* fast-path verifier, its count of polls.
NoVerifier == [pc |-> "none", name |-> "", id |-> 0, addr |-> "", attempts |-> 0]

\* No verifier started; the clock at hour 0; the Quote Service knows no
\* deposit address.  per is monitorSwapVerification, fast a goroutine of
\* verifySwapCompletion, svc the settlement state of each deposit address.
NoVer == [clock |-> 0, per |-> NoVerifier, fast |-> NoVerifier,
          svc |-> [a \in {} |-> ""]]

\* No temporary file, no call in flight, none returned, no Pricer call made.
AuxInit ==
    /\ tmp = NoFile
    /\ tasks = [t \in 1..MaxTask |-> NoTask]
    /\ log = <<>>
    /\ call = NoCall
    /\ pass = NoPass
    /\ ver = NoVer

Init ==
    /\ plans = [n \in {} |-> NewPlan(Unit, Unit, Unit)]
    /\ today = 1
    /\ ret = Ret("none", "", "")
    /\ running = FALSE
    /\ activePlans = [n \in {} |-> 0]
    /\ mon = [m \in 1..MaxMon |-> NoMon]
    /\ sent = <<>>
    /\ disk = NoFile
    /\ AuxInit

\* The error a patch of an execution returns before changing it, "" for none.
PatchError(name, id) ==
    IF name \notin DOMAIN plans THEN "not found"
    ELSE IF FindExecution(plans[name], id) = 0 THEN "execution not found"
    ELSE ""

\* In each call the document write succeeds or, when the call reaches it,
\* fails.  These specifications do not follow the content of the plan file.
DoCreatePlan ==
    /\ \E n \in Names, t \in AmountInputs, pt \in AmountInputs, pd \in AmountInputs :
            \/ CreatePlan(n, t, pt, pd, TRUE)
            \/ CreateError(n, t, pt, pd) = "" /\ CreatePlan(n, t, pt, pd, FALSE)
    /\ UNCHANGED <<disk, log>>
DoStartPlan ==
    /\ \E n \in Names :
            \/ StartPlan(n, TRUE)
            \/ StartError(n) = "" /\ StartPlan(n, FALSE)
    /\ UNCHANGED <<disk, log>>
DoStopPlan ==
    /\ \E n \in Names :
            \/ StopPlan(n, TRUE)
            \/ StopError(n) = "" /\ StopPlan(n, FALSE)
    /\ UNCHANGED <<disk, log>>
DoCancelPlan ==
    /\ \E n \in Names :
            \/ CancelPlan(n, TRUE)
            \/ n \in DOMAIN plans /\ CancelPlan(n, FALSE)
    /\ UNCHANGED <<disk, log>>
DoDeletePlan ==
    /\ \E n \in Names :
            \/ DeletePlan(n, TRUE)
            \/ DeleteError(n) = "" /\ DeletePlan(n, FALSE)
    /\ UNCHANGED <<disk, log>>
DoAddExecution ==
    /\ \E n \in Names, a \in ExecAmounts, st \in ExecStatuses :
            \/ AddExecution(n, a, st, TRUE)
            \/ n \in DOMAIN plans /\ AddExecution(n, a, st, FALSE)
    /\ UNCHANGED <<disk, log>>
DoUpdateExecutionStatus ==
    /\ \E n \in Names, id \in 1..(MaxHist + 1), p \in StatusPatches :
            \/ UpdateExecutionStatus(n, id, p, TRUE)
            \/ PatchError(n, id) = "" /\ UpdateExecutionStatus(n, id, p, FALSE)
    /\ UNCHANGED <<disk, log>>
DoUpdateExecutionWithSwapStatus ==
    /\ \E n \in Names, id \in 1..(MaxHist + 1), sw \in SwapInputs :
            \/ UpdateExecutionWithSwapStatus(n, id, sw, TRUE)
            \/ PatchError(n, id) = "" /\ UpdateExecutionWithSwapStatus(n, id, sw, FALSE)
    /\ UNCHANGED <<disk, log>>

Next ==
    \/ DoCreatePlan
    \/ DoStartPlan
    \/ DoStopPlan
    \/ DoCancelPlan
    \/ DoDeletePlan
    \/ DoAddExecution
    \/ DoUpdateExecutionStatus
    \/ DoUpdateExecutionWithSwapStatus

Spec == Init /\ [][Next]_vars

----------------------------------------------------------------------------
(* Executor (Scheduler).  A monitor goroutine is a slot of mon: pc "none"   *)
(* is a free slot, "wait" the select of monitorPlan, and "price", "quote"  *)
(* and "deposit" the three network calls of a tick during which the        *)
(* goroutine is suspended.  stopped says that its stopChan is closed.      *)

FreeMons == {m \in DOMAIN mon : mon[m].pc = "none"}

ActiveNames == {n \in DOMAIN plans : plans[n].status = StatusActive}

\* One free slot for each plan of toStart.
Assign(toStart) ==
    CHOOSE f \in [toStart -> FreeMons] : \A a, b \in toStart : a # b => f[a] # f[b]

\* Executor.startPlanExecutor for each plan of toStart, given its slot by f:
\* the monitors after it.
StartedMons(toStart, f) ==
    [m \in DOMAIN mon |->
        IF \E n \in toStart : f[n] = m
        THEN [name |-> CHOOSE n \in toStart : f[n] = m, pc |-> "wait",
              stopped |-> FALSE, amt |-> 0, eid |-> 0]
        ELSE mon[m]]

\* Executor.Start
ExecStart ==
    /\ ~running
    /\ Cardinality(ActiveNames) <= Cardinality(FreeMons)
    /\ LET f == Assign(ActiveNames)
       IN  /\ mon' = StartedMons(ActiveNames, f)
           /\ activePlans' = [n \in DOMAIN activePlans \cup ActiveNames |->
                                 IF n \in ActiveNames THEN f[n] ELSE activePlans[n]]
    /\ running' = TRUE
    /\ UNCHANGED <<plans, today, ret, sent, disk, log>>
    /\ AuxUnchanged

\* reloadPlans without its second loop: monitors are started, none is stopped.
ReloadPlansNoStop ==
    /\ running
    /\ LET toStart == ActiveNames \ DOMAIN activePlans
       IN  /\ Cardinality(toStart) <= Cardinality(FreeMons)
           /\ LET f == Assign(toStart)
              IN  /\ mon' = StartedMons(toStart, f)
                  /\ activePlans' = [n \in DOMAIN activePlans \cup toStart |->
                                        IF n \in toStart THEN f[n] ELSE activePlans[n]]
    /\ UNCHANGED <<plans, today, ret, running, sent, disk, log>>
    /\ AuxUnchanged

\* Executor.reloadPlans, the pass of the reconciliation task
ReloadPlans ==
    /\ running
    /\ LET toStart == ActiveNames \ DOMAIN activePlans
           toStop  == DOMAIN activePlans \ ActiveNames
       IN  /\ Cardinality(toStart) <= Cardinality(FreeMons)
           /\ LET f == Assign(toStart)
                  started == StartedMons(toStart, f)
              IN  /\ mon' = [m \in DOMAIN mon |->
                               IF \E n \in toStop : activePlans[n] = m
                               THEN [started[m] EXCEPT !.stopped = TRUE]
                               ELSE started[m]]
                  /\ activePlans' = [n \in (DOMAIN activePlans \cup toStart) \ toStop |->
                                        IF n \in toStart THEN f[n] ELSE activePlans[n]]
    /\ UNCHANGED <<plans, today, ret, running, sent, disk, log>>
    /\ AuxUnchanged

\* monitorPlan's ticker fires; checkAndExecutePlan reloads the plan, tests
\* CanExecuteToday and CanExecute and asks the Quote Service for a probe quote
\* (part_005 176-198, pricer.go 124-131).  A tick that returns early changes
\* nothing.
MonTickBegin(m) ==
    /\ mon[m].pc = "wait"
    /\ mon[m].name \in DOMAIN plans
    /\ CanExecuteToday(plans[mon[m].name], today)
    /\ mon' = [mon EXCEPT ![m].pc = "price"]
    /\ UNCHANGED <<plans, today, ret, running, activePlans, sent>>
    /\ AuxUnchanged

\* MonPrice ending the monitor on a price error.
MonPriceErrorQuits(m, outcome) ==
    /\ mon[m].pc = "price"
    /\ IF outcome = "trigger"
       THEN mon' = [mon EXCEPT ![m].pc = "quote",
                               ![m].amt = ExecuteAmount(plans[mon[m].name], today)]
       ELSE IF outcome = "error"
       THEN mon' = [mon EXCEPT ![m].pc = "wait", ![m].stopped = TRUE]
       ELSE mon' = [mon EXCEPT ![m].pc = "wait"]
    /\ UNCHANGED <<plans, today, ret, running, activePlans, sent>>
    /\ AuxUnchanged

\* The probe quote answers: an error, a price that does not trigger, or one
\* that does; on trigger executeTrade sizes the trade and asks for the firm
\* quote (part_005 199-265).
MonPrice(m, outcome) ==
    /\ mon[m].pc = "price"
    /\ IF outcome = "trigger"
       THEN mon' = [mon EXCEPT ![m].pc = "quote",
                               ![m].amt = ExecuteAmount(plans[mon[m].name], today)]
       ELSE mon' = [mon EXCEPT ![m].pc = "wait"]
    /\ UNCHANGED <<plans, today, ret, running, activePlans, sent>>
    /\ AuxUnchanged

\* The Execution executeTrade fills in from the firm quote (part_005 272-279).
QuotedExecution(amount) ==
    [NewExecution(amount, ExecutionPending) EXCEPT !.addr = "addr"]

\* MonQuote giving the tick up when the plan is no longer Active.
MonQuoteActiveOnly(m, quoteOk, saveOk) ==
    /\ mon[m].pc = "quote"
    /\ IF ~quoteOk \/ plans[mon[m].name].status # StatusActive
       THEN /\ mon' = [mon EXCEPT ![m].pc = "wait", ![m].amt = 0]
            /\ UNCHANGED <<plans, ret>>
       ELSE /\ Len(plans[mon[m].name].history) < MaxSent
            /\ plans' = [plans EXCEPT ![mon[m].name] =
                           AddExecutionPlan(@, QuotedExecution(mon[m].amt),
                                            NewId, today)]
            /\ ret' = SaveErr(saveOk)
            /\ IF saveOk
               THEN mon' = [mon EXCEPT ![m].pc = "deposit", ![m].eid = NewId]
               ELSE mon' = [mon EXCEPT ![m].pc = "wait", ![m].amt = 0]
    /\ UNCHANGED <<today, running, activePlans, sent>>
    /\ AuxUnchanged

\* The firm quote answers; executeTrade records the Pending execution and,
\* with auto-deposit configured, asks the Depositor to send the funds
\* (part_005 265-316).
MonQuote(m, quoteOk, saveOk) ==
    /\ mon[m].pc = "quote"
    /\ IF ~quoteOk
       THEN /\ mon' = [mon EXCEPT ![m].pc = "wait", ![m].amt = 0]
            /\ UNCHANGED <<plans, ret>>
       ELSE /\ Len(plans[mon[m].name].history) < MaxSent
            /\ plans' = [plans EXCEPT ![mon[m].name] =
                           AddExecutionPlan(@, QuotedExecution(mon[m].amt),
                                            NewId, today)]
            /\ ret' = SaveErr(saveOk)
            /\ IF saveOk
               THEN mon' = [mon EXCEPT ![m].pc = "deposit", ![m].eid = NewId]
               ELSE mon' = [mon EXCEPT ![m].pc = "wait", ![m].amt = 0]
    /\ UNCHANGED <<today, running, activePlans, sent>>
    /\ AuxUnchanged

\* DepositPatched pausing the plan whose deposit failed.
DepositPatchedPauses(plan, id, outcome) ==
    IF outcome = "sent"
    THEN UpdateExecutionStatusPlan(plan, id, DepositedPatch[1], DepositedPatch[2], DepositedPatch[3])
    ELSE IF outcome = "failed"
    THEN [UpdateExecutionStatusPlan(plan, id, FailedPatch[1], FailedPatch[2], FailedPatch[3])
             EXCEPT !.status = StatusPaused]
    ELSE plan

\* The plan after handleAutoDeposit's patch of the execution.
DepositPatched(plan, id, outcome) ==
    IF outcome = "sent"
    THEN UpdateExecutionStatusPlan(plan, id, DepositedPatch[1], DepositedPatch[2], DepositedPatch[3])
    ELSE IF outcome = "failed"
    THEN UpdateExecutionStatusPlan(plan, id, FailedPatch[1], FailedPatch[2], FailedPatch[3])
    ELSE plan

\* MonDeposit without the removal of the monitor of a Completed plan.
MonDepositNoRemoval(m, outcome, saveOk) ==
    /\ mon[m].pc = "deposit"
    /\ LET n == mon[m].name
           after == DepositPatched(plans[n], mon[m].eid, outcome)
       IN  /\ plans' = [plans EXCEPT ![n] = after]
           /\ ret' = IF outcome = "disabled" THEN ret ELSE SaveErr(saveOk)
           /\ sent' = IF outcome = "sent"
                      THEN Append(sent, [name |-> n, date |-> today, eid |-> mon[m].eid,
                                         amount |-> mon[m].amt,
                                         funds |-> plans[n].perTrade])
                      ELSE sent
           /\ mon' = [mon EXCEPT ![m].pc = "wait", ![m].amt = 0, ![m].eid = 0]
    /\ UNCHANGED <<today, running, activePlans>>
    /\ AuxUnchanged

\* The Depositor answers (or auto-deposit is not enabled for the chain);
\* handleAutoDeposit patches the execution, and checkAndExecutePlan removes
\* the plan's monitor when the plan has become Completed (part_005 311-332,
\* 218-228).  The funds sent are plan.AmountPerTrade.
MonDeposit(m, outcome, saveOk) ==
    /\ mon[m].pc = "deposit"
    /\ LET n == mon[m].name
           after == DepositPatched(plans[n], mon[m].eid, outcome)
           done == after.status = StatusCompleted /\ n \in DOMAIN activePlans
           ended == [mon EXCEPT ![m].pc = "wait", ![m].amt = 0, ![m].eid = 0]
       IN  /\ plans' = [plans EXCEPT ![n] = after]
           /\ ret' = IF outcome = "disabled" THEN ret ELSE SaveErr(saveOk)
           /\ sent' = IF outcome = "sent"
                      THEN Append(sent, [name |-> n, date |-> today, eid |-> mon[m].eid,
                                         amount |-> mon[m].amt,
                                         funds |-> plans[n].perTrade])
                      ELSE sent
           /\ mon' = IF done THEN [ended EXCEPT ![activePlans[n]].stopped = TRUE] ELSE ended
           /\ activePlans' = IF done
                             THEN [k \in DOMAIN activePlans \ {n} |-> activePlans[k]]
                             ELSE activePlans
    /\ UNCHANGED <<today, running>>
    /\ AuxUnchanged

\* monitorPlan's select takes the closed stopChan: the goroutine returns.
MonExit(m) ==
    /\ mon[m].pc = "wait"
    /\ mon[m].stopped
    /\ mon' = [mon EXCEPT ![m] = NoMon]
    /\ UNCHANGED <<plans, today, ret, running, activePlans, sent, disk, log>>
    /\ AuxUnchanged

PriceOutcomes == {"trigger", "no trigger", "error"}
DepositOutcomes == {"sent", "failed", "disabled"}

DoMonTickBegin == (\E m \in DOMAIN mon : MonTickBegin(m)) /\ UNCHANGED <<disk, log>>
DoMonPrice ==
    /\ \E m \in DOMAIN mon, o \in PriceOutcomes : MonPrice(m, o)
    /\ UNCHANGED <<disk, log>>
DoMonQuote ==
    /\ \E m \in DOMAIN mon :
          \/ MonQuote(m, TRUE, TRUE)
          \/ MonQuote(m, TRUE, FALSE)
          \/ MonQuote(m, FALSE, TRUE)
    /\ UNCHANGED <<disk, log>>
DoMonDeposit ==
    /\ \E m \in DOMAIN mon, o \in DepositOutcomes :
          \/ MonDeposit(m, o, TRUE)
          \/ o # "disabled" /\ MonDeposit(m, o, FALSE)
    /\ UNCHANGED <<disk, log>>
DoMonExit == \E m \in DOMAIN mon : MonExit(m)

(* Specification of the Scheduler: the plan file holds plans as CreatePlan  *)
(* left them; they are started and stopped through the Registry while the  *)
(* Executor runs and the days pass.                                        *)

\* The parameter sets CreatePlan accepts: <<total, perTrade, perDay>>.
ValidParams ==
    { p \in AmountInputs \X AmountInputs \X AmountInputs :
        /\ validateAmount(p[1]) /\ validateAmount(p[2]) /\ validateAmount(p[3])
        /\ p[2] <= p[3] /\ p[3] <= p[1] }

SchedInit ==
    /\ \E f \in [Names -> ValidParams] :
          plans = [n \in Names |-> NewPlan(f[n][1], f[n][2], f[n][3])]
    /\ today = 1
    /\ ret = ""
    /\ running = FALSE
    /\ activePlans = [n \in {} |-> 0]
    /\ mon = [m \in 1..MaxMon |-> NoMon]
    /\ sent = <<>>
    /\ disk = Encode(plans)
    /\ AuxInit

SchedNext ==
    \/ DoStartPlan
    \/ DoStopPlan
    \/ AdvanceDay
    \/ ExecStart
    \/ ReloadPlans
    \/ DoMonTickBegin
    \/ DoMonPrice
    \/ DoMonQuote
    \/ DoMonDeposit
    \/ DoMonExit

SchedSpec == SchedInit /\ [][SchedNext]_vars

(* Specification of a run in which nothing fails: every plan is started    *)
(* and never stopped, every probe quote triggers, every quote, deposit and *)
(* document write succeeds, the days pass, and every task that can take a  *)
(* step eventually takes it (each goroutine is scheduled, each timer       *)
(* fires).                                                                 *)

DoStartPlanOk == (\E n \in Names : StartPlan(n, TRUE)) /\ UNCHANGED <<disk, log>>
DoMonPriceTrigger == (\E m \in DOMAIN mon : MonPrice(m, "trigger")) /\ UNCHANGED <<disk, log>>
DoMonQuoteOk == (\E m \in DOMAIN mon : MonQuote(m, TRUE, TRUE)) /\ UNCHANGED <<disk, log>>
DoMonDepositSent ==
    (\E m \in DOMAIN mon : MonDeposit(m, "sent", TRUE)) /\ UNCHANGED <<disk, log>>

LiveNext ==
    \/ DoStartPlanOk
    \/ AdvanceDay
    \/ ExecStart
    \/ ReloadPlans
    \/ DoMonTickBegin
    \/ DoMonPriceTrigger
    \/ DoMonQuoteOk
    \/ DoMonDepositSent

LiveSpec ==
    /\ SchedInit
    /\ [][LiveNext]_vars
    /\ WF_vars(DoStartPlanOk)
    /\ WF_vars(AdvanceDay)
    /\ WF_vars(ExecStart)
    /\ WF_vars(ReloadPlans)
    /\ WF_vars(DoMonTickBegin)
    /\ WF_vars(DoMonPriceTrigger)
    /\ WF_vars(DoMonQuoteOk)
    /\ WF_vars(DoMonDepositSent)

----------------------------------------------------------------------------
(* Specification of the plan lifecycle: one caller of a Manager creates,   *)
(* starts, stops, cancels and deletes plans, one call after the other, and *)
(* the log remembers the last calls that returned.                         *)

\* The log after the call op on plan name returned err.
Push(op, name, err) ==
    LET e == [op |-> op, name |-> name, err |-> err]
    IN  IF Len(log) < MaxLog THEN Append(log, e) ELSE Append(Tail(log), e)

LogCreatePlan ==
    /\ \E n \in Names, t \in AmountInputs, pt \in AmountInputs, pd \in AmountInputs :
          /\ \/ CreatePlan(n, t, pt, pd, TRUE)
             \/ CreateError(n, t, pt, pd) = "" /\ CreatePlan(n, t, pt, pd, FALSE)
          /\ log' = Push("create", n, ret')
    /\ UNCHANGED disk
LogStartPlan ==
    /\ \E n \in Names :
          /\ \/ StartPlan(n, TRUE)
             \/ StartError(n) = "" /\ StartPlan(n, FALSE)
          /\ log' = Push("start", n, ret')
    /\ UNCHANGED disk
LogStopPlan ==
    /\ \E n \in Names :
          /\ \/ StopPlan(n, TRUE)
             \/ StopError(n) = "" /\ StopPlan(n, FALSE)
          /\ log' = Push("stop", n, ret')
    /\ UNCHANGED disk
LogCancelPlan ==
    /\ \E n \in Names :
          /\ \/ CancelPlan(n, TRUE)
             \/ n \in DOMAIN plans /\ CancelPlan(n, FALSE)
          /\ log' = Push("cancel", n, ret')
    /\ UNCHANGED disk
LogDeletePlan ==
    /\ \E n \in Names :
          /\ \/ DeletePlan(n, TRUE)
             \/ DeleteError(n) = "" /\ DeletePlan(n, FALSE)
          /\ log' = Push("delete", n, ret')
    /\ UNCHANGED disk

LifeNext ==
    \/ LogCreatePlan
    \/ LogStartPlan
    \/ LogStopPlan
    \/ LogCancelPlan
    \/ LogDeletePlan

LifeSpec == Init /\ [][LifeNext]_vars

----------------------------------------------------------------------------
(* Specification of concurrent Manager calls.  The Manager has no lock of  *)
(* its own: a call is a sequence of Storage calls, each atomic under       *)
(* Storage.mu, and of reads and writes of the plan object between them;    *)
(* Storage.save runs after the map was changed and the lock released.      *)
(* Every task makes one call.                                              *)

TaskOps == {"create", "start", "stop", "delete"}

\* The plan object the pointer of call t refers to.
Obj(t) ==
    IF tasks[t].ptr = 0 THEN plans[tasks[t].name] ELSE tasks[tasks[t].ptr].gone

\* Call t returns err.
Return(t, err) == [tasks EXCEPT ![t].pc = "done", ![t].err = err]

\* The calls after call t took the object under name n out of the map: the
\* pointers to that object now are pointers to an object outside the map.
Detach(ts, t, n) ==
    [u \in DOMAIN ts |->
        LET moved == IF ts[u].ptr = 0 /\ ts[u].name = n
                     THEN [ts[u] EXCEPT !.ptr = t] ELSE ts[u]
        IN  IF u = t THEN [moved EXCEPT !.gone = plans[n]] ELSE moved]

\* A task enters a Manager call.
TaskBegin(t, op, n) ==
    /\ tasks[t].pc = "idle"
    /\ tasks' = [tasks EXCEPT ![t] = [NoTask EXCEPT !.op = op, !.name = n, !.pc = "first"]]
    /\ UNCHANGED <<plans, disk>>

\* CreatePlan up to Storage.Create (manager.go 39-100)
TaskCreateCheck(t, total, perTrade, perDay) ==
    /\ tasks[t].pc = "first" /\ tasks[t].op = "create"
    /\ LET err == CreateError(tasks[t].name, total, perTrade, perDay)
       IN  tasks' = IF err # "" THEN Return(t, err)
                    ELSE [tasks EXCEPT ![t].pc = "store",
                                       ![t].gone = NewPlan(total, perTrade, perDay)]
    /\ UNCHANGED <<plans, disk>>

\* TaskCreateStore without the test that the name is free.
TaskCreateStoreBlind(t) ==
    /\ tasks[t].pc = "store" /\ tasks[t].op = "create"
    /\ plans' = [n \in DOMAIN plans \cup {tasks[t].name} |->
                    IF n = tasks[t].name THEN tasks[t].gone ELSE plans[n]]
    /\ tasks' = [tasks EXCEPT ![t].pc = "save", ![t].ptr = 0, ![t].gone = <<>>]
    /\ UNCHANGED disk

\* Storage.Create up to save (storage.go 111-122); gone is the new plan here.
TaskCreateStore(t) ==
    /\ tasks[t].pc = "store" /\ tasks[t].op = "create"
    /\ IF tasks[t].name \in DOMAIN plans
       THEN /\ tasks' = Return(t, "exists")
            /\ plans' = plans
       ELSE /\ plans' = [n \in DOMAIN plans \cup {tasks[t].name} |->
                           IF n = tasks[t].name THEN tasks[t].gone ELSE plans[n]]
            /\ tasks' = [tasks EXCEPT ![t].pc = "save", ![t].ptr = 0, ![t].gone = <<>>]
    /\ UNCHANGED disk

\* Storage.Get in StartPlan, StopPlan and DeletePlan
TaskGet(t) ==
    /\ tasks[t].pc = "first" /\ tasks[t].op \in {"start", "stop", "delete"}
    /\ tasks' = IF tasks[t].name \notin DOMAIN plans THEN Return(t, "not found")
                ELSE [tasks EXCEPT ![t].pc = "check", ![t].ptr = 0]
    /\ UNCHANGED <<plans, disk>>

\* The error the status test of call t gives, "" for none.
TaskStatusError(t) ==
    LET st == Obj(t).status
    IN  IF tasks[t].op = "start" /\ st = StatusActive THEN "already active"
        ELSE IF tasks[t].op = "start" /\ st = StatusCompleted THEN "already completed"
        ELSE IF tasks[t].op = "stop" /\ st # StatusActive THEN "not active"
        ELSE IF tasks[t].op = "delete" /\ st = StatusActive THEN "active, stop it first"
        ELSE ""

\* The tests of plan.Status (manager.go 139, 153-159, 174)
TaskCheck(t) ==
    /\ tasks[t].pc = "check"
    /\ tasks' = IF TaskStatusError(t) # "" THEN Return(t, TaskStatusError(t))
                ELSE [tasks EXCEPT ![t].pc = IF tasks[t].op = "delete" THEN "store" ELSE "write"]
    /\ UNCHANGED <<plans, disk>>

\* plan.Status = ... of StartPlan and StopPlan, through the pointer
TaskWrite(t) ==
    /\ tasks[t].pc = "write"
    /\ LET st == IF tasks[t].op = "start" THEN StatusActive ELSE StatusPaused
           k == tasks[t].ptr
       IN  IF k = 0
           THEN /\ plans' = [plans EXCEPT ![tasks[t].name].status = st]
                /\ tasks' = [tasks EXCEPT ![t].pc = "store"]
           ELSE /\ plans' = plans
                /\ tasks' = [u \in DOMAIN tasks |->
                               LET w == IF u = k THEN [tasks[u] EXCEPT !.gone.status = st]
                                        ELSE tasks[u]
                               IN  IF u = t THEN [w EXCEPT !.pc = "store"] ELSE w]
    /\ UNCHANGED disk

\* Storage.Update up to save (storage.go 143-154): s.plans[plan.Name] = plan
\* puts the object of the pointer under the name, whatever object was there.
TaskUpdateStore(t) ==
    /\ tasks[t].pc = "store" /\ tasks[t].op \in {"start", "stop"}
    /\ LET n == tasks[t].name
           k == tasks[t].ptr
       IN  IF n \notin DOMAIN plans
           THEN /\ tasks' = Return(t, "not found")
                /\ plans' = plans
           ELSE IF k = 0
           THEN /\ tasks' = [tasks EXCEPT ![t].pc = "save"]
                /\ plans' = plans
           ELSE /\ plans' = [plans EXCEPT ![n] = tasks[k].gone]
                /\ tasks' = [u \in DOMAIN tasks |->
                               LET d == Detach(tasks, t, n)[u]
                                   a == IF tasks[u].ptr = k THEN [d EXCEPT !.ptr = 0] ELSE d
                               IN  IF u = t THEN [a EXCEPT !.pc = "save"] ELSE a]
    /\ UNCHANGED disk

\* Storage.Delete up to save (storage.go 162-173)
TaskDeleteStore(t) ==
    /\ tasks[t].pc = "store" /\ tasks[t].op = "delete"
    /\ LET n == tasks[t].name
       IN  IF n \notin DOMAIN plans
           THEN /\ tasks' = Return(t, "not found")
                /\ plans' = plans
           ELSE /\ plans' = [m \in DOMAIN plans \ {n} |-> plans[m]]
                /\ tasks' = [Detach(tasks, t, n) EXCEPT ![t].pc = "save"]
    /\ UNCHANGED disk

\* Storage.save at the end of Create, Update and Delete, and the return
TaskSave(t, saveOk) ==
    /\ tasks[t].pc = "save"
    /\ tasks' = Return(t, SaveErr(saveOk))
    /\ disk' = IF saveOk THEN Encode(plans) ELSE disk
    /\ UNCHANGED plans

ConcUnchanged == UNCHANGED <<today, ret, running, activePlans, mon, sent, tmp, log, call, pass, ver>>

DoTaskBegin ==
    (\E t \in DOMAIN tasks, op \in TaskOps, n \in Names : TaskBegin(t, op, n)) /\ ConcUnchanged
DoTaskCreateCheck ==
    /\ \E t \in DOMAIN tasks, a \in AmountInputs, b \in AmountInputs, c \in AmountInputs :
          TaskCreateCheck(t, a, b, c)
    /\ ConcUnchanged
DoTaskCreateStore == (\E t \in DOMAIN tasks : TaskCreateStore(t)) /\ ConcUnchanged
DoTaskGet == (\E t \in DOMAIN tasks : TaskGet(t)) /\ ConcUnchanged
DoTaskCheck == (\E t \in DOMAIN tasks : TaskCheck(t)) /\ ConcUnchanged
DoTaskWrite == (\E t \in DOMAIN tasks : TaskWrite(t)) /\ ConcUnchanged
DoTaskUpdateStore == (\E t \in DOMAIN tasks : TaskUpdateStore(t)) /\ ConcUnchanged
DoTaskDeleteStore == (\E t \in DOMAIN tasks : TaskDeleteStore(t)) /\ ConcUnchanged
DoTaskSave == (\E t \in DOMAIN tasks, ok \in BOOLEAN : TaskSave(t, ok)) /\ ConcUnchanged

\* The plan file holds plans that were created and then started, stopped or
\* cancelled, or none.
ConcInit ==
    /\ \E S \in SUBSET Names : \E f \in [S -> ValidParams] :
          \E st \in [S -> {StatusPaused, StatusActive, StatusCancelled}] :
             plans = [n \in S |-> [NewPlan(f[n][1], f[n][2], f[n][3]) EXCEPT !.status = st[n]]]
    /\ today = 1
    /\ ret = ""
    /\ running = FALSE
    /\ activePlans = [n \in {} |-> 0]
    /\ mon = [m \in 1..MaxMon |-> NoMon]
    /\ sent = <<>>
    /\ disk = Encode(plans)
    /\ AuxInit

ConcNext ==
    \/ DoTaskBegin
    \/ DoTaskCreateCheck
    \/ DoTaskCreateStore
    \/ DoTaskGet
    \/ DoTaskCheck
    \/ DoTaskWrite
    \/ DoTaskUpdateStore
    \/ DoTaskDeleteStore
    \/ DoTaskSave

ConcSpec == ConcInit /\ [][ConcNext]_vars

----------------------------------------------------------------------------
(* Specification of the plan file under concurrent Manager calls: as       *)
(* ConcSpec, with Storage.save taken step by step.  save holds only the    *)
(* read lock, so several calls can be inside it, and all of them use the   *)
(* one temporary file filePath + ".tmp".                                   *)

\* A stretch of a file no write has filled.
Hole == [doc |-> <<>>, part |-> 0]

\* The data of a file after part x was written at position i.
WritePart(data, i, x) ==
    [j \in 1..(IF Len(data) < i THEN i ELSE Len(data)) |->
        IF j = i THEN x ELSE IF j <= Len(data) THEN data[j] ELSE Hole]

\* json.MarshalIndent of s.plans (storage.go 82-89)
FileMarshal(t) ==
    /\ tasks[t].pc = "save"
    /\ tasks' = [tasks EXCEPT ![t].pc = "open", ![t].buf = plans]
    /\ UNCHANGED <<plans, disk, tmp>>

\* os.WriteFile opens the temporary file, creating or truncating it
\* (storage.go 98-99)
FileOpen(t) ==
    /\ tasks[t].pc = "open"
    /\ tmp' = [exists |-> TRUE, data |-> <<>>]
    /\ tasks' = [tasks EXCEPT ![t].pc = "put", ![t].fd = "tmp", ![t].off = 0]
    /\ UNCHANGED <<plans, disk>>

\* os.WriteFile writes the next part of the document at the descriptor's
\* offset, and closes the file after the last part.
FilePut(t) ==
    /\ tasks[t].pc = "put"
    /\ LET i == tasks[t].off + 1
           x == [doc |-> tasks[t].buf, part |-> i]
       IN  /\ tmp' = IF tasks[t].fd = "tmp"
                     THEN [tmp EXCEPT !.data = WritePart(@, i, x)] ELSE tmp
           /\ disk' = IF tasks[t].fd = "disk"
                      THEN [disk EXCEPT !.data = WritePart(@, i, x)] ELSE disk
           /\ tasks' = IF i = DocParts
                       THEN [tasks EXCEPT ![t].pc = "rename", ![t].fd = "", ![t].off = 0]
                       ELSE [tasks EXCEPT ![t].off = i]
    /\ UNCHANGED plans

\* os.Rename of the temporary file onto the plan file (storage.go 103-105),
\* and the return of the call.  The descriptors open on the temporary file
\* stay open on the file that now is the plan file.
FileRename(t) ==
    /\ tasks[t].pc = "rename"
    /\ IF ~tmp.exists
       THEN /\ tasks' = Return(t, "save failed")
            /\ UNCHANGED <<disk, tmp>>
       ELSE /\ disk' = tmp
            /\ tmp' = NoFile
            /\ tasks' = [u \in DOMAIN tasks |->
                           LET moved == IF tasks[u].fd = "tmp" THEN [tasks[u] EXCEPT !.fd = "disk"]
                                        ELSE IF tasks[u].fd = "disk" THEN [tasks[u] EXCEPT !.fd = "gone"]
                                        ELSE tasks[u]
                           IN  IF u = t THEN [moved EXCEPT !.pc = "done", !.err = ""] ELSE moved]
    /\ UNCHANGED plans

FileUnchanged == UNCHANGED <<today, ret, running, activePlans, mon, sent, log, call, pass, ver>>

DoFileBegin ==
    /\ \E t \in DOMAIN tasks, op \in TaskOps, n \in Names : TaskBegin(t, op, n)
    /\ UNCHANGED tmp /\ FileUnchanged
DoFileCreateCheck ==
    /\ \E t \in DOMAIN tasks : \E p \in ValidParams : TaskCreateCheck(t, p[1], p[2], p[3])
    /\ UNCHANGED tmp /\ FileUnchanged
DoFileCreateStore == (\E t \in DOMAIN tasks : TaskCreateStore(t)) /\ UNCHANGED tmp /\ FileUnchanged
DoFileGet == (\E t \in DOMAIN tasks : TaskGet(t)) /\ UNCHANGED tmp /\ FileUnchanged
DoFileCheck == (\E t \in DOMAIN tasks : TaskCheck(t)) /\ UNCHANGED tmp /\ FileUnchanged
DoFileWrite == (\E t \in DOMAIN tasks : TaskWrite(t)) /\ UNCHANGED tmp /\ FileUnchanged
DoFileUpdateStore == (\E t \in DOMAIN tasks : TaskUpdateStore(t)) /\ UNCHANGED tmp /\ FileUnchanged
DoFileDeleteStore == (\E t \in DOMAIN tasks : TaskDeleteStore(t)) /\ UNCHANGED tmp /\ FileUnchanged
DoFileMarshal == (\E t \in DOMAIN tasks : FileMarshal(t)) /\ FileUnchanged
DoFileOpen == (\E t \in DOMAIN tasks : FileOpen(t)) /\ FileUnchanged
DoFilePut == (\E t \in DOMAIN tasks : FilePut(t)) /\ FileUnchanged
DoFileRename == (\E t \in DOMAIN tasks : FileRename(t)) /\ FileUnchanged

FileNext ==
    \/ DoFileBegin
    \/ DoFileCreateCheck
    \/ DoFileCreateStore
    \/ DoFileGet
    \/ DoFileCheck
    \/ DoFileWrite
    \/ DoFileUpdateStore
    \/ DoFileDeleteStore
    \/ DoFileMarshal
    \/ DoFileOpen
    \/ DoFilePut
    \/ DoFileRename

FileSpec == ConcInit /\ [][FileNext]_vars

----------------------------------------------------------------------------
(* Specification of the daily accounting: the plan file holds plans as     *)
(* CreatePlan left them; a caller starts and stops them and adds           *)
(* executions in any status while the days pass.                           *)

\* Amount strings of the stored plans: one, two and four times 0.00000001.
DayAmountInputs == {Unit, 2 * Unit, 4 * Unit}

\* The parameter sets of the stored plans: <<total, perTrade, perDay>>.
DayParams ==
    { p \in DayAmountInputs \X DayAmountInputs \X DayAmountInputs :
        p[2] <= p[3] /\ p[3] <= p[1] }

\* Amounts of the executions added.
DayExecAmounts == {Unit, 2 * Unit}

DayInit ==
    /\ \E f \in [Names -> DayParams] :
          plans = [n \in Names |-> NewPlan(f[n][1], f[n][2], f[n][3])]
    /\ today = 1
    /\ ret = ""
    /\ running = FALSE
    /\ activePlans = [n \in {} |-> 0]
    /\ mon = [m \in 1..MaxMon |-> NoMon]
    /\ sent = <<>>
    /\ disk = Encode(plans)
    /\ AuxInit

DayAddExecution ==
    /\ \E n \in Names, a \in DayExecAmounts, st \in ExecStatuses :
          /\ Len(plans[n].history) < MaxAdds
          /\ \/ AddExecutionCall(n, a, st, TRUE)
             \/ AddExecutionCall(n, a, st, FALSE)
    /\ UNCHANGED <<disk, log>>

DayNext ==
    \/ DoStartPlan
    \/ DoStopPlan
    \/ DayAddExecution
    \/ AdvanceDay

DaySpec == DayInit /\ [][DayNext]_vars

----------------------------------------------------------------------------
(* The Pricer.  Prices and trigger prices are counted in hundredths.       *)

PriceAbove == "above"
PriceBelow == "below"
PriceAt == "at"

\* A TriggerPrice string strconv.ParseFloat refuses.
BadNumber == -1

\* The PriceCondition values a plan may carry; "near" is none of the three
\* constants.
PriceConditions == {PriceAbove, PriceBelow, PriceAt, "near"}

PricerTriggers == {10000, 300000, BadNumber}

PricerPrices ==
    {9949, 9950, 9999, 10000, 10001, 10040, 10050, 10051, 10100,
     298499, 298500, 299999, 300000, 300001, 301500, 301501}

\* CheckTriggerCondition with every comparison strict.
CheckTriggerConditionStrict(cond, trigger, price) ==
    IF trigger = BadNumber
    THEN [result |-> FALSE, err |-> "invalid trigger price"]
    ELSE CASE cond = PriceAbove -> [result |-> price > trigger, err |-> ""]
           [] cond = PriceBelow -> [result |-> price < trigger, err |-> ""]
           [] cond = PriceAt ->
                LET diff == IF price < trigger THEN trigger - price
                            ELSE price - trigger
                IN  [result |-> diff * 1000 < trigger * 5, err |-> ""]
           [] OTHER -> [result |-> FALSE, err |-> "unknown price condition"]

\* Pricer.CheckTriggerCondition: tolerance = trigger * 0.005 and
\* diff <= tolerance, both sides multiplied by 1000.
CheckTriggerCondition(cond, trigger, price) ==
    IF trigger = BadNumber
    THEN [result |-> FALSE, err |-> "invalid trigger price"]
    ELSE CASE cond = PriceAbove -> [result |-> price >= trigger, err |-> ""]
           [] cond = PriceBelow -> [result |-> price <= trigger, err |-> ""]
           [] cond = PriceAt ->
                LET diff == IF price < trigger THEN trigger - price
                            ELSE price - trigger
                IN  [result |-> diff * 1000 <= trigger * 5, err |-> ""]
           [] OTHER -> [result |-> FALSE, err |-> "unknown price condition"]

\* What client.GetQuote answers: an error, or the formatted amounts in (whole
\* tokens) and out (hundredths).
Quotes ==
    {[ok |-> FALSE, amountIn |-> 0, amountOut |-> 0]}
        \cup [ok : {TRUE}, amountIn : {0, 1}, amountOut : PricerPrices]

\* Pricer.GetPrice once the quote has answered.
GetPrice(quote) ==
    IF ~quote.ok THEN [err |-> "failed to get quote", price |-> 0]
    ELSE IF quote.amountIn = 0 THEN [err |-> "invalid amount in: 0", price |-> 0]
    ELSE [err |-> "", price |-> quote.amountOut \div quote.amountIn]

\* ShouldExecute asking for a quote whatever the plan's state.
ShouldExecuteAlwaysQuotes(plan, quote) ==
    LET cur == GetPrice(quote)
        trig == CheckTriggerCondition(plan.cond, plan.trigger, cur.price)
    IN  IF cur.err # ""
        THEN [result |-> FALSE, err |-> cur.err, quoted |-> TRUE, price |-> 0]
        ELSE IF trig.err # ""
        THEN [result |-> FALSE, err |-> trig.err, quoted |-> TRUE, price |-> 0]
        ELSE [result |-> trig.result, err |-> "", quoted |-> TRUE,
              price |-> cur.price]

\* Pricer.ShouldExecute; quoted tells whether client.GetQuote was called.
ShouldExecute(plan, quote) ==
    IF ~CanExecute(plan)
    THEN [result |-> FALSE, err |-> "", quoted |-> FALSE, price |-> 0]
    ELSE LET cur == GetPrice(quote)
             trig == CheckTriggerCondition(plan.cond, plan.trigger, cur.price)
         IN  IF cur.err # ""
             THEN [result |-> FALSE, err |-> cur.err, quoted |-> TRUE,
                   price |-> 0]
             ELSE IF trig.err # ""
             THEN [result |-> FALSE, err |-> trig.err, quoted |-> TRUE,
                   price |-> 0]
             ELSE [result |-> trig.result, err |-> "", quoted |-> TRUE,
                   price |-> cur.price]

\* The plans handed to the Pricer: any status, nothing or something remaining.
PricerPlans ==
    [status : {StatusActive, StatusPaused, StatusCompleted,
               StatusCancelled},
     remaining : {0, Unit},
     cond : PriceConditions,
     trigger : PricerTriggers]

PricerUnchanged ==
    UNCHANGED <<plans, today, ret, running, activePlans, mon, sent, disk, tmp,
                tasks, log, pass, ver>>

DoCheckTriggerCondition ==
    \E cond \in PriceConditions, trigger \in PricerTriggers,
       price \in PricerPrices :
        /\ call' = [fn |-> "CheckTriggerCondition", cond |-> cond,
                    trigger |-> trigger, price |-> price,
                    out |-> CheckTriggerCondition(cond, trigger, price)]
        /\ PricerUnchanged

DoShouldExecute ==
    \E plan \in PricerPlans, quote \in Quotes :
        /\ call' = [fn |-> "ShouldExecute", plan |-> plan,
                    out |-> ShouldExecute(plan, quote)]
        /\ PricerUnchanged

PricerNext ==
    \/ DoCheckTriggerCondition
    \/ DoShouldExecute

PricerSpec == Init /\ [][PricerNext]_vars

----------------------------------------------------------------------------
(* The daemon and the command line.  The daemon (runPlanDaemon) builds one *)
(* Manager, whose Storage reads the plan file once, in NewStorage, and     *)
(* runs the Executor over it; plans is the map of that Storage.  Every     *)
(* other command is a process of its own: it builds a Manager over the     *)
(* same file, calls one operation and exits, so what it leaves behind is   *)
(* the file.                                                               *)

CrossNames == {"p1", "p2"}

\* NewStorage and Storage.load: the map a new Storage holds over file f.
Load(f) ==
    IF Complete(f) THEN f.data[1].doc ELSE [n \in {} |-> NewPlan(Unit, Unit, Unit)]

\* The plans that are Active in the plan file.
DiskActive == {n \in DOMAIN Load(disk) : Load(disk)[n].status = StatusActive}

\* `plan create` in another process: NewManager, CreatePlan, save.
CliCreate(name, total, perTrade, perDay) ==
    LET loaded == Load(disk)
    IN  /\ name \notin DOMAIN loaded
        /\ disk' = Encode([n \in DOMAIN loaded \cup {name} |->
                              IF n = name THEN NewPlan(total, perTrade, perDay)
                              ELSE loaded[n]])
        /\ UNCHANGED <<plans, today, ret, log>>
        /\ SchedUnchanged
        /\ AuxUnchanged

\* `plan start` in another process: NewManager, StartPlan, save.
CliStart(name) ==
    LET loaded == Load(disk)
    IN  /\ name \in DOMAIN loaded
        /\ loaded[name].status \notin {StatusActive, StatusCompleted}
        /\ disk' = Encode([loaded EXCEPT ![name].status = StatusActive])
        /\ UNCHANGED <<plans, today, ret, log>>
        /\ SchedUnchanged
        /\ AuxUnchanged

\* `plan stop` in another process: NewManager, StopPlan, save.
CliStop(name) ==
    LET loaded == Load(disk)
    IN  /\ name \in DOMAIN loaded
        /\ loaded[name].status = StatusActive
        /\ disk' = Encode([loaded EXCEPT ![name].status = StatusPaused])
        /\ UNCHANGED <<plans, today, ret, log>>
        /\ SchedUnchanged
        /\ AuxUnchanged

DoCliCreate == \E n \in CrossNames, p \in ValidParams : CliCreate(n, p[1], p[2], p[3])
DoCliStart == \E n \in CrossNames : CliStart(n)
DoCliStop == \E n \in CrossNames : CliStop(n)

\* runPlanDaemon returns before Executor.Start when no plan is Active.
DaemonStart == ActiveNames # {} /\ ExecStart

\* A pass of monitorPlanChanges in the daemon, noted in the log.
DaemonReload ==
    /\ running
    /\ LET toStart == ActiveNames \ DOMAIN activePlans
           toStop  == DOMAIN activePlans \ ActiveNames
       IN  /\ Cardinality(toStart) <= Cardinality(FreeMons)
           /\ LET f == Assign(toStart)
                  started == StartedMons(toStart, f)
              IN  /\ mon' = [m \in DOMAIN mon |->
                               IF \E n \in toStop : activePlans[n] = m
                               THEN [started[m] EXCEPT !.stopped = TRUE]
                               ELSE started[m]]
                  /\ activePlans' = [n \in (DOMAIN activePlans \cup toStart) \ toStop |->
                                        IF n \in toStart THEN f[n] ELSE activePlans[n]]
    /\ log' = Push("reload", "", "")
    /\ UNCHANGED <<plans, today, ret, running, sent, disk>>
    /\ AuxUnchanged

\* The monitors of the daemon; a save of theirs writes the daemon's map.
DaemonMonQuote ==
    /\ \E m \in DOMAIN mon :
          \/ MonQuote(m, TRUE, TRUE) /\ disk' = Encode(plans')
          \/ MonQuote(m, TRUE, FALSE) /\ disk' = disk
          \/ MonQuote(m, FALSE, TRUE) /\ disk' = disk
    /\ UNCHANGED log

DaemonMonDeposit ==
    /\ \E m \in DOMAIN mon, o \in DepositOutcomes :
          \/ o # "disabled" /\ MonDeposit(m, o, TRUE) /\ disk' = Encode(plans')
          \/ o # "disabled" /\ MonDeposit(m, o, FALSE) /\ disk' = disk
          \/ o = "disabled" /\ MonDeposit(m, o, TRUE) /\ disk' = disk
    /\ UNCHANGED log

\* The plan file when the daemon starts: p1 Active, p2 not created or Paused.
\* No plan of the daemon's map leaves Active, as no call of the daemon stops
\* one and the executions its monitors record are never counted, so that no
\* stopChan is closed and MonExit has no part in CrossNext.
CrossInit ==
    /\ \E S \in SUBSET CrossNames, f \in [CrossNames -> ValidParams] :
          /\ "p1" \in S
          /\ plans = [n \in S |->
                        [NewPlan(f[n][1], f[n][2], f[n][3]) EXCEPT
                            !.status = IF n = "p1" THEN StatusActive
                                       ELSE StatusPaused]]
    /\ today = 1
    /\ ret = ""
    /\ running = FALSE
    /\ activePlans = [n \in {} |-> 0]
    /\ mon = [m \in 1..MaxMon |-> NoMon]
    /\ sent = <<>>
    /\ disk = Encode(plans)
    /\ AuxInit

CrossNext ==
    \/ DoCliCreate
    \/ DoCliStart
    \/ DoCliStop
    \/ DaemonStart
    \/ DaemonReload
    \/ DoMonTickBegin
    \/ DoMonPrice
    \/ DaemonMonQuote
    \/ DaemonMonDeposit

CrossSpec == CrossInit /\ [][CrossNext]_vars

----------------------------------------------------------------------------
(* Specification of the execution history: callers record executions of a  *)
(* stored plan as the Executor does, Pending, patch them and settle them,  *)
(* and start, stop and delete the plan, in any order.                      *)

\* Settlement strings of the Quote Service; the last is not a final one.
SettleInputs == {"SUCCESS", "COMPLETED", "FAILED", "REFUNDED", "PROCESSING"}

HistInit ==
    /\ plans = [n \in Names |-> NewPlan(4 * Unit, Unit, 4 * Unit)]
    /\ today = 1
    /\ ret = ""
    /\ running = FALSE
    /\ activePlans = [n \in {} |-> 0]
    /\ mon = [m \in 1..MaxMon |-> NoMon]
    /\ sent = <<>>
    /\ disk = Encode(plans)
    /\ AuxInit

HistAddExecution ==
    /\ \E n \in Names :
          /\ n \in DOMAIN plans => Len(plans[n].history) < MaxAdds
          /\ \/ AddExecutionCall(n, Unit, ExecutionPending, TRUE)
             \/ n \in DOMAIN plans /\ AddExecutionCall(n, Unit, ExecutionPending, FALSE)
    /\ UNCHANGED <<disk, log>>

HistUpdateExecutionStatus ==
    /\ \E n \in Names, id \in 1..(MaxAdds + 1), p \in {DepositedPatch, FailedPatch} :
          \/ UpdateExecutionStatus(n, id, p, TRUE)
          \/ PatchError(n, id) = "" /\ UpdateExecutionStatus(n, id, p, FALSE)
    /\ UNCHANGED <<disk, log>>

HistUpdateExecutionWithSwapStatus ==
    /\ \E n \in Names, id \in 1..(MaxAdds + 1), sw \in SettleInputs :
          \/ UpdateExecutionWithSwapStatus(n, id, sw, TRUE)
          \/ PatchError(n, id) = "" /\ UpdateExecutionWithSwapStatus(n, id, sw, FALSE)
    /\ UNCHANGED <<disk, log>>

HistNext ==
    \/ HistAddExecution
    \/ HistUpdateExecutionStatus
    \/ HistUpdateExecutionWithSwapStatus
    \/ DoStartPlan
    \/ DoStopPlan
    \/ DoDeletePlan

HistSpec == HistInit /\ [][HistNext]_vars

----------------------------------------------------------------------------
(* The Executor and a second task of the same process that calls the       *)
(* Manager the Executor uses: it starts, stops and deletes the plan and    *)
(* records Deposited executions while monitor ticks are in flight.  The    *)
(* log keeps the stop calls that paused the plan, the trades the Executor   *)
(* recorded, the quote errors it printed and the completions it announced. *)
(* A tick holds the pointer GetPlan gave   *)
(* it; once DeletePlan has taken the plan out of the map that object is    *)
(* tasks[1].gone.  A goroutine that dereferences a nil plan panics, which  *)
(* ends the process: pc "panic".                                           *)

\* The parameter sets of the stored plan: <<total, perTrade, perDay>>.
RaceParams == { <<4 * Unit, 2 * Unit, 2 * Unit>>, <<2 * Unit, 2 * Unit, 2 * Unit>> }

\* The plan object the tick of monitor m holds.
TickPlan(m) ==
    IF mon[m].name \in DOMAIN plans THEN plans[mon[m].name] ELSE tasks[1].gone

Alive == \A m \in DOMAIN mon : mon[m].pc # "panic"

RaceInit ==
    /\ \E f \in [Names -> RaceParams] :
          plans = [n \in Names |-> NewPlan(f[n][1], f[n][2], f[n][3])]
    /\ today = 1
    /\ ret = ""
    /\ running = FALSE
    /\ activePlans = [n \in {} |-> 0]
    /\ mon = [m \in 1..MaxMon |-> NoMon]
    /\ sent = <<>>
    /\ disk = Encode(plans)
    /\ AuxInit

RaceStart == Alive /\ DoStartPlan

RaceStop ==
    /\ Alive
    /\ \E n \in Names :
          /\ \/ StopPlan(n, TRUE)
             \/ StopError(n) = "" /\ StopPlan(n, FALSE)
          /\ log' = IF StopError(n) = "" THEN Push("stop", n, ret') ELSE log
    /\ UNCHANGED disk

\* Manager.DeletePlan called by the second task.
RaceDelete ==
    /\ Alive
    /\ \E n \in Names, saveOk \in BOOLEAN :
          LET err == DeleteError(n)
          IN  IF err # ""
              THEN /\ saveOk
                   /\ ret' = Ret("delete", n, err)
                   /\ UNCHANGED <<plans, tasks>>
              ELSE /\ plans' = [k \in DOMAIN plans \ {n} |-> plans[k]]
                   /\ tasks' = [tasks EXCEPT ![1].gone = plans[n]]
                   /\ ret' = Ret("delete", n, SaveErr(saveOk))
    /\ UNCHANGED <<today, disk, log, tmp, call, pass, ver>>
    /\ SchedUnchanged

\* Manager.AddExecution called by the second task for a deposit it made.
RaceAdd ==
    /\ Alive
    /\ \E n \in Names, a \in DayExecAmounts :
          /\ n \in DOMAIN plans => Len(plans[n].history) < MaxSent
          /\ \/ AddExecutionCall(n, a, ExecutionDeposited, TRUE)
             \/ n \in DOMAIN plans /\ AddExecutionCall(n, a, ExecutionDeposited, FALSE)
    /\ UNCHANGED <<disk, log>>

RaceExecStart == Alive /\ ExecStart
RaceReload == Alive /\ ReloadPlans
RaceTickBegin == Alive /\ DoMonTickBegin
RaceExit == Alive /\ DoMonExit

\* The probe quote answers a tick.  The trade size of a plan that is no
\* longer in the map is computed from the object the tick holds.
RacePrice(m, outcome) ==
    /\ Alive
    /\ IF outcome = "trigger" /\ mon[m].name \notin DOMAIN plans
       THEN /\ mon[m].pc = "price"
            /\ mon' = [mon EXCEPT ![m].pc = "quote",
                                  ![m].amt = ExecuteAmount(TickPlan(m), today)]
            /\ UNCHANGED <<plans, today, ret, running, activePlans, sent>>
            /\ AuxUnchanged
       ELSE MonPrice(m, outcome)
    /\ log' = IF outcome = "error" THEN Push("price", mon[m].name, "error") ELSE log
    /\ UNCHANGED disk

\* The firm quote answers a tick; AddExecution does not find a deleted plan.
RaceQuote(m, quoteOk, saveOk) ==
    /\ Alive
    /\ IF mon[m].name \notin DOMAIN plans
       THEN /\ mon[m].pc = "quote"
            /\ saveOk
            /\ mon' = [mon EXCEPT ![m].pc = "wait", ![m].amt = 0]
            /\ ret' = IF quoteOk THEN Ret("add", mon[m].name, "not found") ELSE ret
            /\ log' = IF quoteOk THEN log
                      ELSE Push("trade", mon[m].name, "quote error")
            /\ UNCHANGED <<plans, today, running, activePlans, sent>>
            /\ AuxUnchanged
       ELSE /\ MonQuote(m, quoteOk, saveOk)
            /\ log' = IF ~quoteOk THEN Push("trade", mon[m].name, "quote error")
                      ELSE IF saveOk THEN Push("trade", mon[m].name, "")
                      ELSE log
    /\ UNCHANGED disk

\* The Depositor answers a tick.  The funds are the AmountPerTrade of the
\* object the tick holds; UpdateExecutionStatus does not find a deleted plan,
\* and neither does the GetPlan that follows, whose nil result
\* checkAndExecutePlan dereferences.
RaceDeposit(m, outcome, saveOk) ==
    /\ Alive
    /\ IF mon[m].name \notin DOMAIN plans
       THEN /\ mon[m].pc = "deposit"
            /\ saveOk
            /\ sent' = IF outcome = "sent"
                       THEN Append(sent, [name |-> mon[m].name, date |-> today,
                                          eid |-> mon[m].eid, amount |-> mon[m].amt,
                                          funds |-> TickPlan(m).perTrade])
                       ELSE sent
            /\ ret' = IF outcome = "disabled" THEN ret
                      ELSE Ret("status", mon[m].name, "not found")
            /\ mon' = [mon EXCEPT ![m].pc = "panic"]
            /\ UNCHANGED <<plans, today, running, activePlans, log>>
            /\ AuxUnchanged
       ELSE /\ MonDeposit(m, outcome, saveOk)
            /\ log' = IF plans'[mon[m].name].status = StatusCompleted
                      THEN Push("completed", mon[m].name, "")
                      ELSE log
    /\ UNCHANGED disk

DoRacePrice == \E m \in DOMAIN mon, o \in PriceOutcomes : RacePrice(m, o)
DoRaceQuote ==
    \E m \in DOMAIN mon :
        \/ RaceQuote(m, TRUE, TRUE)
        \/ RaceQuote(m, TRUE, FALSE)
        \/ RaceQuote(m, FALSE, TRUE)
DoRaceDeposit ==
    \E m \in DOMAIN mon, o \in DepositOutcomes :
        \/ RaceDeposit(m, o, TRUE)
        \/ o # "disabled" /\ RaceDeposit(m, o, FALSE)

RaceNext ==
    \/ RaceStart
    \/ RaceStop
    \/ RaceDelete
    \/ RaceAdd
    \/ RaceExecStart
    \/ RaceReload
    \/ RaceTickBegin
    \/ DoRacePrice
    \/ DoRaceQuote
    \/ DoRaceDeposit
    \/ RaceExit

RaceSpec == RaceInit /\ [][RaceNext]_vars

----------------------------------------------------------------------------
(* Claims *)

Abs(x) == IF x < 0 THEN -x ELSE x

\* The amounts of the executions of a plan that are Deposited or Completed.
CountedSum(plan) ==
    SumSeq([i \in 1..Len(plan.history) |->
              IF plan.history[i].status \in {ExecutionDeposited, ExecutionCompleted}
              THEN plan.history[i].amount ELSE 0])

\* C2: for every plan, total_amount - total_executed equals remaining_amount,
\* within 1e-8, after every add_execution call, whatever its amount and status.
C2_TotalMinusExecuted ==
    \A n \in DOMAIN plans :
        Abs((plans[n].total - plans[n].totalExecuted) - plans[n].remaining) <= Tolerance

\* C3: a plan's remaining_amount is never negative, whatever add_execution
\* calls were applied.
C3_RemainingNonNegative ==
    \A n \in DOMAIN plans : plans[n].remaining >= 0

\* C3's case: an execution larger than the remaining amount was added and counted.
C3_Witness ==
    \E n \in DOMAIN plans :
        /\ plans[n].totalExecuted > plans[n].total
        /\ plans[n].remaining = 0

Terminal == {StatusCompleted, StatusCancelled}

\* C7: once a plan's status is Completed or Cancelled, no Registry operation
\* on the plan changes its status again.
C7_TerminalStatus ==
    [][\A n \in DOMAIN plans \cap DOMAIN plans' :
          plans[n].status \in Terminal => plans'[n].status = plans[n].status]_vars

\* C8: a plan becomes Cancelled or Completed only from Active.
C8_TerminalOnlyFromActive ==
    [][\A n \in DOMAIN plans \cap DOMAIN plans' :
          (plans'[n].status \in Terminal /\ plans'[n].status # plans[n].status)
             => plans[n].status = StatusActive]_vars

\* C9: start fails on an Active or Completed plan and turns a Paused plan
\* Active; stop fails on a plan that is not Active and turns an Active plan
\* Paused; a start or stop that fails leaves the plan's status unchanged.
C9_StartStop ==
    [][\A n \in DOMAIN plans : \A ok \in BOOLEAN :
          /\ StartPlan(n, ok) =>
                /\ plans[n].status \in {StatusActive, StatusCompleted} => ret' # ""
                /\ plans[n].status = StatusPaused =>
                      ret' = "" /\ plans'[n].status = StatusActive
                /\ ret' # "" => plans'[n].status = plans[n].status
          /\ StopPlan(n, ok) =>
                /\ plans[n].status # StatusActive => ret' # ""
                /\ plans[n].status = StatusActive =>
                      ret' = "" /\ plans'[n].status = StatusPaused
                /\ ret' # "" => plans'[n].status = plans[n].status]_vars

\* The ordering amount_per_trade <= amount_per_day <= total_amount.
Ordered(total, perTrade, perDay) == perTrade <= perDay /\ perDay <= total

C1_RemainingMatchesHistory ==
    \A n \in DOMAIN plans :
        Abs(plans[n].remaining - (plans[n].total - CountedSum(plans[n]))) <= Tolerance

\* The amounts of the executions the monitor dispatched for plan n on date d.
DispatchedOn(n, d) ==
    SumSeq([i \in 1..Len(sent) |->
              IF sent[i].name = n /\ sent[i].date = d THEN sent[i].amount ELSE 0])

\* The amounts of all executions the monitor dispatched for plan n.
Dispatched(n) ==
    SumSeq([i \in 1..Len(sent) |-> IF sent[i].name = n THEN sent[i].amount ELSE 0])

\* C4: in a run in which quotes and deposits succeed, the executions dispatched
\* for a plan on one date never add up to more than the plan's amount_per_day.
C4_DailyCap ==
    \A n \in DOMAIN plans : \A d \in 1..MaxDay :
        DispatchedOn(n, d) <= plans[n].perDay

\* C5: the executions dispatched for a plan never add up to more than the
\* plan's total_amount.
C5_TotalCap ==
    \A n \in DOMAIN plans : Dispatched(n) <= plans[n].total

SchedulerNeverCounts ==
    \A n \in DOMAIN plans :
        /\ plans[n].remaining = plans[n].total
        /\ plans[n].totalExecuted = 0
        /\ plans[n].status # StatusCompleted

\* The last call the log remembers is a stop of plan n that returned no error.
JustStopped(n) ==
    /\ log # <<>>
    /\ log[Len(log)] = [op |-> "stop", name |-> n, err |-> ""]

\* C11: deleting a plan whose status is Active fails with an error and leaves
\* the plan in the store; right after a successful stop of the plan, delete
\* (its write of the plan file succeeding) returns no error, and the plan no
\* longer exists.
C11_DeleteActive ==
    [][\A n \in Names : \A ok \in BOOLEAN :
          DeletePlan(n, ok) =>
             /\ (n \in DOMAIN plans /\ plans[n].status = StatusActive)
                   => (ret' # "" /\ plans' = plans)
             /\ JustStopped(n) => (n \notin DOMAIN plans' /\ (ok => ret' = ""))]_vars

\* C11's case: a delete of the Active plan was refused, the plan was then
\* stopped, and the delete that followed removed it.
C11_Witness ==
    /\ Len(log) = 3
    /\ log[1] = [op |-> "delete", name |-> "p1", err |-> "active, stop it first"]
    /\ log[2] = [op |-> "stop", name |-> "p1", err |-> ""]
    /\ log[3] = [op |-> "delete", name |-> "p1", err |-> ""]
    /\ "p1" \notin DOMAIN plans

\* C12: a plan is never taken out of the store while its status is Active,
\* however a delete call interleaves with start and stop calls on the same
\* plan made by other tasks.
C12_NoActiveRemoved ==
    [][\A n \in DOMAIN plans :
          n \notin DOMAIN plans' => plans[n].status # StatusActive]_vars

\* Call t takes a step.
Stepped(t) == tasks'[t].pc # tasks[t].pc

\* Call t has changed the map, or is past the point where it does.
Stored(t) ==
    \/ tasks[t].pc = "save"
    \/ tasks[t].pc = "done" /\ tasks[t].err \in {"", "save failed"}

\* Call t returns the error err in this step and the map stays as it is.
Refused(t, err) ==
    /\ tasks'[t].pc = "done"
    /\ tasks'[t].err = err
    /\ plans' = plans

\* C13: Storage.Create fails if the name exists, Storage.Update and
\* Storage.Delete fail if the name is absent, and the stored plans are the same
\* after each of these failures; of two concurrent creates of one name at most
\* one succeeds (unless a delete took the first one's plan out in between).
C13_StoreContract ==
    /\ [][\A t \in DOMAIN tasks :
             (Stepped(t) /\ tasks[t].pc = "store") =>
                /\ (tasks[t].op = "create" /\ tasks[t].name \in DOMAIN plans)
                      => Refused(t, "exists")
                /\ (tasks[t].op \in {"start", "stop", "delete"}
                      /\ tasks[t].name \notin DOMAIN plans)
                      => Refused(t, "not found")]_vars
    /\ [][\A t \in DOMAIN tasks :
             (Stepped(t) /\ tasks'[t].pc = "done"
                /\ tasks'[t].err \notin {"", "save failed"}) => plans' = plans]_vars
    /\ [](\A t, u \in DOMAIN tasks :
             (/\ t # u
              /\ tasks[t].op = "create" /\ tasks[u].op = "create"
              /\ tasks[t].name = tasks[u].name
              /\ Stored(t) /\ Stored(u))
                => \E d \in DOMAIN tasks :
                      /\ tasks[d].op = "delete"
                      /\ tasks[d].name = tasks[t].name
                      /\ Stored(d))

\* C13's case: two creates of one name ran at the same time, both found the
\* name free in CreatePlan, one stored its plan and returned no error, the
\* other was refused by Storage.Create.
C13_Witness ==
    \E t, u \in DOMAIN tasks :
        /\ tasks[t].op = "create" /\ tasks[u].op = "create"
        /\ tasks[t].name = tasks[u].name
        /\ tasks[t].pc = "done" /\ tasks[t].err = ""
        /\ tasks[u].pc = "done" /\ tasks[u].err = "exists"
        /\ DOMAIN tasks[u].gone # {}
        /\ tasks[t].name \in DOMAIN plans

\* C14: at every instant (so also where a crash stops every call), with any
\* number of mutating calls running in the process, the plan file holds one
\* complete document, never a partial or mixed one.
C14_AtomicReplace == disk.exists => Complete(disk)

\* What an execution adds to the executed amounts: its amount if it is
\* Deposited or Completed.
Counted(e) ==
    IF e.status \in {ExecutionDeposited, ExecutionCompleted} THEN e.amount ELSE 0

\* C15: an add_execution on a date other than last_execution_date sets
\* today_executed to zero before it accumulates the new execution's amount, and
\* sets last_execution_date to the current date; on the same date it only
\* accumulates.
C15_DailyReset ==
    [][\A n \in DOMAIN plans \cap DOMAIN plans' :
          Len(plans'[n].history) = Len(plans[n].history) + 1 =>
             LET e == plans'[n].history[Len(plans'[n].history)]
             IN  /\ plans'[n].lastDate = today
                 /\ plans'[n].todayExecuted =
                       IF plans[n].lastDate # today THEN Fmt8(Counted(e))
                       ELSE Fmt8(plans[n].todayExecuted + Counted(e))]_vars

\* C15's case: a plan with an amount executed on day 1 got an execution on
\* day 2 that does not count, and its today_executed is zero again.
C15_Witness ==
    \E n \in DOMAIN plans :
        /\ Len(plans[n].history) = 2
        /\ plans[n].history[1].date = 1
        /\ Counted(plans[n].history[1]) > 0
        /\ plans[n].history[2].date = 2
        /\ plans[n].history[2].status = ExecutionPending
        /\ plans[n].lastDate = 2
        /\ plans[n].todayExecuted = 0

\* The counted amounts of the executions of a plan dated d.
CountedOn(plan, d) ==
    SumSeq([i \in 1..Len(plan.history) |->
              IF plan.history[i].date = d THEN Counted(plan.history[i]) ELSE 0])

\* C16: on the date of a plan's last execution today_executed is the sum of
\* the amounts of that date's Deposited (or Completed) executions, and once
\* that sum has reached amount_per_day can_execute_today is false for the rest
\* of the date; on a later date it is true again for an Active plan with an
\* amount remaining.
C16_DailyLimit ==
    \A n \in DOMAIN plans :
        /\ plans[n].lastDate = today =>
              /\ plans[n].todayExecuted = CountedOn(plans[n], today)
              /\ CountedOn(plans[n], today) >= plans[n].perDay
                    => ~CanExecuteToday(plans[n], today)
        /\ (plans[n].lastDate # today /\ plans[n].status = StatusActive
              /\ plans[n].remaining # 0) => CanExecuteToday(plans[n], today)

\* C16's case: two Deposited executions of per_trade each used up per_day on
\* day 1 without exhausting the plan, and on day 2 the Active plan can execute.
C16_Witness ==
    \E n \in DOMAIN plans :
        /\ plans[n].status = StatusActive
        /\ plans[n].perDay = 2 * plans[n].perTrade
        /\ Len(plans[n].history) = 2
        /\ \A i \in 1..2 :
              /\ plans[n].history[i].date = 1
              /\ plans[n].history[i].status = ExecutionDeposited
              /\ plans[n].history[i].amount = plans[n].perTrade
        /\ plans[n].todayExecuted = plans[n].perDay
        /\ today = 2
        /\ CanExecuteToday(plans[n], today)

\* C17: CheckTriggerCondition(plan, price) is true for 'above' exactly when
\* price >= trigger, for 'below' exactly when price <= trigger, for 'at'
\* exactly when |price - trigger| is at most 0.5% of trigger, and for any other
\* comparator it returns an error; so 'below 3000' is true at 2999.99 and false
\* at 3000.01, and 'at 100' is true at 100.4 and false at 101.0.
C17_Evaluate ==
    (call.fn = "CheckTriggerCondition" /\ call.trigger # BadNumber) =>
        LET t == call.trigger
            p == call.price
        IN  /\ call.cond = PriceAbove =>
                  (call.out.err = "" /\ (call.out.result <=> p >= t))
            /\ call.cond = PriceBelow =>
                  (call.out.err = "" /\ (call.out.result <=> p <= t))
            /\ call.cond = PriceAt =>
                  /\ call.out.err = ""
                  /\ call.out.result <=> (200 * Abs(p - t) <= t)
            /\ call.cond \notin {PriceAbove, PriceBelow, PriceAt} =>
                  (call.out.err # "" /\ ~call.out.result)
            /\ (call.cond = PriceBelow /\ t = 300000 /\ p = 299999)
                  => call.out.result
            /\ (call.cond = PriceBelow /\ t = 300000 /\ p = 300001)
                  => ~call.out.result
            /\ (call.cond = PriceAt /\ t = 10000 /\ p = 10040)
                  => call.out.result
            /\ (call.cond = PriceAt /\ t = 10000 /\ p = 10100)
                  => ~call.out.result

\* C17's case: 'at 100' was evaluated at 100.50, the edge of the tolerance,
\* and held.
C17_Witness ==
    /\ call.fn = "CheckTriggerCondition"
    /\ call.cond = PriceAt
    /\ call.trigger = 10000
    /\ call.price = 10050
    /\ call.out.result
    /\ call.out.err = ""

\* C18: ShouldExecute returns false without an error and without calling
\* GetQuote when the plan is not Active or has nothing remaining, and calls
\* GetQuote in every other case.
C18_NoQuoteWhenIdle ==
    call.fn = "ShouldExecute" =>
        IF call.plan.status # StatusActive \/ call.plan.remaining = 0
        THEN ~call.out.quoted /\ ~call.out.result /\ call.out.err = ""
        ELSE call.out.quoted

\* C18's case: ShouldExecute on an Active plan with nothing remaining, whose
\* trigger would hold at any price, returned false without a quote.
C18_Witness ==
    /\ call.fn = "ShouldExecute"
    /\ call.plan.status = StatusActive
    /\ call.plan.remaining = 0
    /\ call.plan.cond = PriceAbove
    /\ call.plan.trigger = 10000
    /\ ~call.out.quoted
    /\ ~call.out.result

\* C19: in one process, after each pass of reloadPlans the registered monitors
\* are exactly the plans the Manager reported Active: each of them has a
\* monitor goroutine of its own whose stopChan is open, and the goroutine of
\* every plan the pass unregistered has its stopChan closed.  A pass over
\* registered monitors that differ from the Active plans does not leave them
\* as they are.
C19_Reconcile ==
    /\ [](  (/\ running
             /\ DOMAIN activePlans # ActiveNames
             /\ Cardinality(ActiveNames \ DOMAIN activePlans)
                   <= Cardinality(FreeMons))
          => ENABLED <<ReloadPlans>>_vars)
    /\ [][ReloadPlans =>
          /\ DOMAIN activePlans' = ActiveNames
          /\ \A n \in DOMAIN activePlans' :
                /\ mon'[activePlans'[n]].name = n
                /\ mon'[activePlans'[n]].pc # "none"
                /\ ~mon'[activePlans'[n]].stopped
          /\ \A n \in DOMAIN activePlans \ ActiveNames :
                mon'[activePlans[n]].stopped]_vars

\* C19's case: a pass has unregistered the monitor of a plan that is no longer
\* Active, and the goroutine, its stopChan closed, has not returned yet.
C19_Witness ==
    /\ running
    /\ ActiveNames = {}
    /\ DOMAIN activePlans = {}
    /\ \E m \in DOMAIN mon : mon[m].pc # "none" /\ mon[m].stopped

\* C20: after a pass of the daemon's reconciliation task the monitors follow
\* the plan file as other processes left it: every plan that is Active in the
\* file has a registered monitor, and every registered monitor is of a plan
\* that is Active in the file.
C20_CrossProcess ==
    [][DaemonReload => DOMAIN activePlans' = DiskActive']_vars

\* The execution e after a settlement with the string sw on the date now, as
\* C24 words it.
Settled(e, sw, now) ==
    IF sw \in {"SUCCESS", "COMPLETED"}
    THEN [e EXCEPT !.swap = sw, !.status = ExecutionCompleted, !.done = now]
    ELSE IF sw \in {"FAILED", "REFUNDED"}
    THEN [e EXCEPT !.swap = sw, !.status = ExecutionFailed]
    ELSE [e EXCEPT !.swap = sw]

\* C24: UpdateExecutionWithSwapStatus turns the settlement strings SUCCESS and
\* COMPLETED into the execution status Completed and sets the completion time,
\* FAILED and REFUNDED into Failed, and leaves the status alone for any other
\* string, which it still records; only the execution with the given id
\* changes, and an unknown id is an error that leaves the plan as it was.
C24_Settlement ==
    [][\A n \in Names, id \in 1..(MaxAdds + 1), sw \in SettleInputs, ok \in BOOLEAN :
          UpdateExecutionWithSwapStatus(n, id, sw, ok) =>
             IF n \notin DOMAIN plans THEN ret' # "" /\ plans' = plans
             ELSE LET h == plans[n].history
                      i == FindExecution(plans[n], id)
                  IN  IF \A j \in 1..Len(h) : h[j].id # id
                      THEN ret' # "" /\ plans' = plans
                      ELSE plans' = [plans EXCEPT ![n].history[i] =
                                        Settled(h[i], sw, today)]]_vars

\* C24's case: of two executions the second was settled REFUNDED and is
\* Failed, and the first, settled with a string that is not final, is still
\* Pending.
C24_Witness ==
    \E n \in DOMAIN plans :
        /\ Len(plans[n].history) = 2
        /\ plans[n].history[1].swap = "PROCESSING"
        /\ plans[n].history[1].status = ExecutionPending
        /\ plans[n].history[2].swap = "REFUNDED"
        /\ plans[n].history[2].status = ExecutionFailed
        /\ plans[n].history[2].done = 0

\* C30: the execution history of a plan is append-only: a Manager operation
\* that leaves the plan stored either appends one execution at the end or
\* changes at most one execution in place, keeping its id, its amount and its
\* date; none removes or reorders executions.
C30_AppendOnly ==
    [][\A n \in DOMAIN plans \cap DOMAIN plans' :
          LET h == plans[n].history
              g == plans'[n].history
          IN  \/ /\ Len(g) = Len(h) + 1
                 /\ \A i \in 1..Len(h) : g[i] = h[i]
                 /\ \A i \in 1..Len(h) : h[i].id # g[Len(g)].id
              \/ /\ Len(g) = Len(h)
                 /\ \A i \in 1..Len(h) :
                       /\ g[i].id = h[i].id
                       /\ g[i].amount = h[i].amount
                       /\ g[i].date = h[i].date
                 /\ \A i, j \in 1..Len(h) :
                       (g[i] # h[i] /\ g[j] # h[j]) => i = j]_vars

\* C30's case: the first of two executions was patched to Failed and the
\* second settled as Completed after both had been appended.
C30_Witness ==
    \E n \in DOMAIN plans :
        /\ Len(plans[n].history) = 2
        /\ plans[n].history[1].id # plans[n].history[2].id
        /\ plans[n].history[1].status = ExecutionFailed
        /\ plans[n].history[1].err # ""
        /\ plans[n].history[2].status = ExecutionCompleted
        /\ plans[n].history[2].swap = "SUCCESS"

\* C22: when the Depositor fails to send, handleAutoDeposit marks the one
\* execution of this tick Failed and records the error message; the plan's
\* status and totals and every other execution stay as they were, nothing is
\* noted as sent, and the monitor stays registered and returns to its wait.
C22_DepositFailure ==
    [][\A m \in DOMAIN mon, ok \in BOOLEAN :
          MonDeposit(m, "failed", ok) =>
             LET n == mon[m].name
                 i == FindExecution(plans[n], mon[m].eid)
             IN  /\ i # 0
                 /\ plans' = [plans EXCEPT ![n].history[i] =
                                 [@ EXCEPT !.status = ExecutionFailed,
                                           !.err = FailedPatch[3]]]
                 /\ plans'[n].history[i].err # ""
                 /\ sent' = sent
                 /\ activePlans' = activePlans
                 /\ mon' = [mon EXCEPT ![m].pc = "wait", ![m].amt = 0,
                                       ![m].eid = 0]]_vars

\* C22's case: of the two executions of an Active plan the second failed at
\* the Depositor and the first was sent; the monitor is registered and waits.
C22_Witness ==
    \E n \in DOMAIN plans :
        /\ plans[n].status = StatusActive
        /\ Len(plans[n].history) = 2
        /\ plans[n].history[1].status = ExecutionDeposited
        /\ plans[n].history[2].status = ExecutionFailed
        /\ plans[n].history[2].err # ""
        /\ n \in DOMAIN activePlans
        /\ mon[activePlans[n]].pc = "wait"
        /\ ~mon[activePlans[n]].stopped
        /\ Len(sent) = 1

\* C23: a price error or a quote error on a tick has no effect: the plans are
\* as they were, no execution is appended, nothing is sent, the registry is
\* unchanged, and the monitor is back at its wait, its stopChan as it was.
C23_QuoteErrorNoEffect ==
    [][\A m \in DOMAIN mon :
          (RacePrice(m, "error") \/ RaceQuote(m, FALSE, TRUE)) =>
             /\ plans' = plans
             /\ sent' = sent
             /\ activePlans' = activePlans
             /\ mon' = [mon EXCEPT ![m].pc = "wait", ![m].amt = 0]]_vars

\* C23's case: a tick met a price error and a later one a quote error; the
\* Active plan has no execution, nothing was sent, and its registered monitor
\* waits for the next tick.
C23_Witness ==
    \E n \in DOMAIN plans :
        /\ log = << [op |-> "price", name |-> n, err |-> "error"],
                    [op |-> "trade", name |-> n, err |-> "quote error"] >>
        /\ plans[n].status = StatusActive
        /\ plans[n].history = <<>>
        /\ sent = <<>>
        /\ n \in DOMAIN activePlans
        /\ mon[activePlans[n]].pc = "wait"
        /\ ~mon[activePlans[n]].stopped

\* The least of three amounts.
Least(a, b, c) == CHOOSE x \in {a, b, c} : x <= a /\ x <= b /\ x <= c

\* C25: on trigger the size of the trade is the least of amount_per_trade,
\* the amount remaining for the day and the amount remaining in total, taken
\* from the plan the tick holds; the tick records one execution of that
\* amount, and no other step of a tick adds to the history.
C25_TradeSize ==
    [][\A m \in DOMAIN mon :
          /\ RacePrice(m, "trigger") =>
                LET p == TickPlan(m)
                    daily == IF p.lastDate # today THEN p.perDay
                             ELSE IF p.perDay < p.todayExecuted THEN 0
                             ELSE p.perDay - p.todayExecuted
                IN  mon'[m].amt = Least(p.perTrade, daily, p.remaining)
          /\ \A ok \in BOOLEAN :
                (RaceQuote(m, TRUE, ok) /\ mon[m].name \in DOMAIN plans) =>
                   LET h == plans[mon[m].name].history
                       g == plans'[mon[m].name].history
                   IN  /\ Len(g) = Len(h) + 1
                       /\ \A i \in 1..Len(h) : g[i] = h[i]
                       /\ g[Len(g)].amount = mon[m].amt
          /\ (mon'[m] # mon[m] /\ mon[m].pc # "quote") =>
                \A n \in DOMAIN plans \cap DOMAIN plans' :
                   n = mon[m].name => Len(plans'[n].history) = Len(plans[n].history)]_vars

\* C25's case: a caller had recorded a Deposited execution of half of
\* amount_per_trade, which left half of it for the day, and the tick recorded
\* an execution of that half.
C25_Witness ==
    \E n \in DOMAIN plans, m \in DOMAIN mon :
        /\ mon[m].name = n
        /\ mon[m].pc = "deposit"
        /\ Len(plans[n].history) = 2
        /\ plans[n].history[1].status = ExecutionDeposited
        /\ plans[n].history[2].id = mon[m].eid
        /\ plans[n].history[2].status = ExecutionPending
        /\ plans[n].history[2].amount = Unit
        /\ plans[n].perTrade = 2 * Unit

\* C26: the funds handed to the Depositor for an execution are the amount
\* recorded on that execution.
C26_FundsMatchAmount ==
    \A i \in 1..Len(sent) : sent[i].funds = sent[i].amount

\* C27: when the tick of a monitor has recorded its execution and finds the
\* plan Completed at its end, no monitor of that plan is registered any more,
\* and the monitor is at its wait with its stopChan closed.
C27_CompletedRemoves ==
    [][\A m \in DOMAIN mon, o \in DepositOutcomes, ok \in BOOLEAN :
          (/\ RaceDeposit(m, o, ok)
           /\ mon[m].name \in DOMAIN plans'
           /\ plans'[mon[m].name].status = StatusCompleted) =>
             /\ mon[m].name \notin DOMAIN activePlans'
             /\ mon'[m].pc = "wait"
             /\ mon'[m].stopped
             /\ \A k \in DOMAIN mon : mon'[k].name = mon[m].name => mon'[k].stopped]_vars

\* C27's case: while the Depositor was sending, a caller recorded the
\* Deposited execution that completed the plan; the tick ended by announcing
\* the completion, and the monitor, unregistered, has not returned yet.
C27_Witness ==
    \E n \in DOMAIN plans, m \in DOMAIN mon :
        /\ plans[n].status = StatusCompleted
        /\ Len(log) > 0
        /\ log[Len(log)] = [op |-> "completed", name |-> n, err |-> ""]
        /\ Len(sent) = 1
        /\ activePlans = [k \in {} |-> 0]
        /\ mon[m].name = n
        /\ mon[m].pc = "wait"
        /\ mon[m].stopped

\* C28: a StopPlan that returns does not hold back a tick that is past its
\* reload: whenever the plan is Paused and the tick of a monitor waits for
\* its firm quote, the tick goes on to record its execution and to ask the
\* Depositor to send.
C28_StopGap ==
    \A m \in DOMAIN mon :
        (/\ Alive
         /\ mon[m].pc = "quote"
         /\ mon[m].name \in DOMAIN plans
         /\ plans[mon[m].name].status = StatusPaused
         /\ Len(plans[mon[m].name].history) < MaxSent)
        => ENABLED (/\ RaceQuote(m, TRUE, TRUE)
                    /\ mon'[m].pc = "deposit"
                    /\ Len(plans'[mon[m].name].history)
                          = Len(plans[mon[m].name].history) + 1)

\* C28's case: the plan is Paused; StopPlan returned, then the tick recorded
\* its execution, and the Depositor sent the funds for it.
C28_Witness ==
    \E n \in DOMAIN plans :
        /\ plans[n].status = StatusPaused
        /\ Len(log) >= 2
        /\ log[Len(log) - 1] = [op |-> "stop", name |-> n, err |-> ""]
        /\ log[Len(log)] = [op |-> "trade", name |-> n, err |-> ""]
        /\ Len(plans[n].history) > 0
        /\ Len(sent) > 0
        /\ sent[Len(sent)].eid = plans[n].history[Len(plans[n].history)].id
        /\ plans[n].history[Len(plans[n].history)].status = ExecutionDeposited

\* C29: no monitor goroutine dereferences a nil plan, whenever its plan is
\* stopped and deleted during a tick.
C29_TickSurvivesDelete == \A m \in DOMAIN mon : mon[m].pc # "panic"


(***************************************************************************)
(* Executor.Stop against a reconciliation pass in flight.  reloadPlans     *)
(* reads GetActivePlans before it takes Executor.mu and never looks at      *)
(* Executor.running, so the pass is two steps here: PassBegin reads the    *)
(* active plans, PassApply takes the lock and works on what was read.      *)
(* Executor.stopChan is made once, in NewExecutor, and closed by Stop: the *)
(* specification covers one Start and one Stop of the Executor.            *)
(***************************************************************************)

\* Executor.Start with Executor.stopChan still open.
StopExecStart == ~pass.closed /\ ExecStart

\* monitorPlanChanges takes a tick of its ticker, and reloadPlans reads
\* GetActivePlans (part_005 369-373, 380-384).  Executor.mu is not held.
PassBegin ==
    /\ running
    /\ ~pass.closed
    /\ pass.pc = "idle"
    /\ pass' = [pass EXCEPT !.pc = "read", !.active = ActiveNames]
    /\ UNCHANGED <<plans, today, ret, running, activePlans, mon, sent, disk, log,
                   tmp, tasks, call, ver>>

\* reloadPlans from e.mu.Lock() on (part_005 386-407): the two loops, over
\* the plans PassBegin read.
PassApply ==
    /\ pass.pc = "read"
    /\ LET toStart == pass.active \ DOMAIN activePlans
           toStop  == DOMAIN activePlans \ pass.active
       IN  /\ Cardinality(toStart) <= Cardinality(FreeMons)
           /\ LET f == Assign(toStart)
                  started == StartedMons(toStart, f)
              IN  /\ mon' = [m \in DOMAIN mon |->
                               IF \E n \in toStop : activePlans[n] = m
                               THEN [started[m] EXCEPT !.stopped = TRUE]
                               ELSE started[m]]
                  /\ activePlans' = [n \in (DOMAIN activePlans \cup toStart) \ toStop |->
                                        IF n \in toStart THEN f[n] ELSE activePlans[n]]
    /\ pass' = [pass EXCEPT !.pc = "idle", !.active = {}]
    /\ UNCHANGED <<plans, today, ret, running, sent, disk, log, tmp, tasks, call, ver>>

\* Executor.Stop: every registered monitor's stopChan closed, the registry
\* replaced by an empty one, running cleared, Executor.stopChan closed.
ExecStop ==
    /\ running
    /\ mon' = [m \in DOMAIN mon |->
                 IF \E n \in DOMAIN activePlans : activePlans[n] = m
                 THEN [mon[m] EXCEPT !.stopped = TRUE]
                 ELSE mon[m]]
    /\ activePlans' = [n \in {} |-> 0]
    /\ running' = FALSE
    /\ pass' = [pass EXCEPT !.closed = TRUE]
    /\ UNCHANGED <<plans, today, ret, sent, disk, log, tmp, tasks, call, ver>>

StopNext ==
    \/ DoStartPlan
    \/ DoStopPlan
    \/ StopExecStart
    \/ PassBegin
    \/ PassApply
    \/ ExecStop
    \/ DoMonTickBegin
    \/ DoMonPrice
    \/ DoMonQuote
    \/ DoMonDeposit
    \/ DoMonExit

StopSpec == SchedInit /\ [][StopNext]_vars

\* C21: once Executor.Stop has returned, the registry of monitors is empty and
\* stays empty, and no monitor is left whose stopChan is open (none is
\* started afterwards, and each one that runs has been told to exit),
\* whatever reconciliation pass or monitor tick was in flight.
C21_StopQuiesces ==
    (pass.closed /\ ~running) =>
        /\ DOMAIN activePlans = {}
        /\ \A m \in DOMAIN mon : mon[m].pc # "none" => mon[m].stopped

\* C38: a Manager call on a stored plan (start, stop, cancel, add_execution,
\* update_execution_status, update_execution_settlement, delete) that returns
\* the error of the document write leaves every stored plan as the next get
\* returns it identical to the plan before the call.
C38_UnchangedOnSaveError ==
    [][ret' = SaveErr(FALSE) =>
          \A n \in DOMAIN plans : n \in DOMAIN plans' /\ plans'[n] = plans[n]]_vars

\* C39: what another process wrote to the plan file (a plan created, started
\* or stopped from the command line) is still in the file after the daemon's
\* next save: a save of the daemon's monitors keeps every plan of the file,
\* with the status the file had for it.
C39_NoLostPlanData ==
    [][(DaemonMonQuote \/ DaemonMonDeposit) =>
          \A n \in DOMAIN Load(disk) :
              /\ n \in DOMAIN Load(disk')
              /\ Load(disk')[n].status = Load(disk)[n].status]_vars

----------------------------------------------------------------------------
(* Executor.Start after Executor.Stop on the same Executor.  NewExecutor   *)
(* makes Executor.stopChan once; Stop closes it and Start never makes a    *)
(* new one.  pass.pc is "exited" once monitorPlanChanges has returned and  *)
(* "panic" once a close of the closed channel has ended the process.       *)

\* The process has not panicked.
Up == pass.pc # "panic"

\* Executor.Start: running set, a monitor for each Active plan, and
\* monitorPlanChanges started anew.  It is taken here once the goroutine of
\* the previous Start has returned.
RestartExecStart ==
    /\ Up
    /\ ~running
    /\ pass.closed => pass.pc = "exited"
    /\ Cardinality(ActiveNames) <= Cardinality(FreeMons)
    /\ LET f == Assign(ActiveNames)
       IN  /\ mon' = StartedMons(ActiveNames, f)
           /\ activePlans' = [n \in DOMAIN activePlans \cup ActiveNames |->
                                 IF n \in ActiveNames THEN f[n] ELSE activePlans[n]]
    /\ running' = TRUE
    /\ pass' = [pass EXCEPT !.pc = "idle", !.active = {}]
    /\ UNCHANGED <<plans, today, ret, sent, disk, log, tmp, tasks, call, ver>>

\* monitorPlanChanges finds Executor.stopChan closed in its select and
\* returns (part_005 369-371).
PassExit ==
    /\ pass.closed
    /\ pass.pc = "idle"
    /\ pass' = [pass EXCEPT !.pc = "exited"]
    /\ UNCHANGED <<plans, today, ret, running, activePlans, mon, sent, disk, log,
                   tmp, tasks, call, ver>>

\* Executor.Stop: as ExecStop, and close(e.stopChan) panics when the channel
\* is closed already.
RestartExecStop ==
    /\ Up
    /\ running
    /\ mon' = [m \in DOMAIN mon |->
                 IF \E n \in DOMAIN activePlans : activePlans[n] = m
                 THEN [mon[m] EXCEPT !.stopped = TRUE]
                 ELSE mon[m]]
    /\ activePlans' = [n \in {} |-> 0]
    /\ running' = FALSE
    /\ pass' = IF pass.closed THEN [pass EXCEPT !.pc = "panic"]
               ELSE [pass EXCEPT !.closed = TRUE]
    /\ UNCHANGED <<plans, today, ret, sent, disk, log, tmp, tasks, call, ver>>

RestartNext ==
    \/ Up /\ DoStartPlan
    \/ Up /\ DoStopPlan
    \/ RestartExecStart
    \/ Up /\ PassBegin
    \/ Up /\ PassApply
    \/ Up /\ PassExit
    \/ RestartExecStop
    \/ Up /\ DoMonTickBegin
    \/ Up /\ DoMonPrice
    \/ Up /\ DoMonQuote
    \/ Up /\ DoMonDeposit
    \/ Up /\ DoMonExit

RestartSpec == SchedInit /\ [][RestartNext]_vars

\* C34: the Executor can be started again after a stop: while it is running
\* its reconciliation task has not returned, and no Stop closes
\* Executor.stopChan a second time (no panic).
C34_Restart ==
    /\ running => pass.pc \in {"idle", "read"}
    /\ pass.pc # "panic"

----------------------------------------------------------------------------
(* Specification of the registry of monitors: one plan, whose status the   *)
(* Manager's callers change and for which a second caller records deposits *)
(* of its own, and every entry of the Executor that starts or stops a      *)
(* monitor - Start, Stop, StartPlan, StopPlan, the reconciliation pass and *)
(* the removal by the tick that finds the plan Completed.  A goroutine     *)
(* whose stopChan was closed lives until its select takes it, so there is  *)
(* room for more goroutines than plans.                                    *)

\* The monitor goroutines that can be alive at once.
MonSlots == 2

PairInit ==
    /\ \E f \in [Names -> RaceParams] :
          plans = [n \in Names |-> NewPlan(f[n][1], f[n][2], f[n][3])]
    /\ today = 1
    /\ ret = ""
    /\ running = FALSE
    /\ activePlans = [n \in {} |-> 0]
    /\ mon = [m \in 1..MonSlots |-> NoMon]
    /\ sent = <<>>
    /\ disk = Encode(plans)
    /\ AuxInit

\* Executor.StartPlan: refused for a plan that has a monitor registered, is
\* not stored or is not Active; it does not look at Executor.running.
ExecStartPlan(name) ==
    /\ name \notin DOMAIN activePlans
    /\ name \in DOMAIN plans
    /\ plans[name].status = StatusActive
    /\ FreeMons # {}
    /\ LET f == Assign({name})
       IN  /\ mon' = StartedMons({name}, f)
           /\ activePlans' = [n \in DOMAIN activePlans \cup {name} |->
                                 IF n = name THEN f[n] ELSE activePlans[n]]
    /\ UNCHANGED <<plans, today, ret, running, sent, disk, log>>
    /\ AuxUnchanged

\* Executor.StopPlan with the entry left in the registry.
ExecStopPlanKeepsEntry(name) ==
    /\ name \in DOMAIN activePlans
    /\ mon' = [mon EXCEPT ![activePlans[name]].stopped = TRUE]
    /\ UNCHANGED <<plans, today, ret, running, activePlans, sent, disk, log>>
    /\ AuxUnchanged

\* Executor.StopPlan: the stopChan of the registered monitor closed and the
\* entry deleted, for a plan that has one.
ExecStopPlan(name) ==
    /\ name \in DOMAIN activePlans
    /\ mon' = [mon EXCEPT ![activePlans[name]].stopped = TRUE]
    /\ activePlans' = [n \in DOMAIN activePlans \ {name} |-> activePlans[n]]
    /\ UNCHANGED <<plans, today, ret, running, sent, disk, log>>
    /\ AuxUnchanged

DoExecStartPlan == \E n \in Names : ExecStartPlan(n)
DoExecStopPlan == \E n \in Names : ExecStopPlan(n)

PairNext ==
    \/ DoStartPlan
    \/ DoStopPlan
    \/ RaceAdd
    \/ StopExecStart
    \/ ExecStop
    \/ DoExecStartPlan
    \/ DoExecStopPlan
    \/ PassBegin
    \/ PassApply
    \/ DoMonTickBegin
    \/ DoMonPrice
    \/ DoMonQuote
    \/ DoMonDeposit
    \/ DoMonExit

PairSpec == PairInit /\ [][PairNext]_vars

\* The monitors that are alive: started and not yet returned.
AliveMons == {m \in DOMAIN mon : mon[m].pc # "none"}

\* C35: the stopChan of a monitor is closed at most once.  Stop, StopPlan,
\* reloadPlans and the tick that finds the plan Completed close the stopChan
\* of entries of the registry only, so this is: the registry holds no entry
\* whose stopChan is closed, and each entry is a goroutine that was started
\* for the plan name it is registered under.
C35_CloseOnce ==
    \A n \in DOMAIN activePlans :
        /\ activePlans[n] \in AliveMons
        /\ ~mon[activePlans[n]].stopped
        /\ mon[activePlans[n]].name = n

\* A monitor whose stopChan was closed is still alive while the plan has a
\* monitor registered again.
C35_Witness ==
    /\ \E m \in AliveMons : mon[m].stopped
    /\ DOMAIN activePlans # {}

\* C36: at most one monitor per plan name is alive at any time.
C36_OneMonitorPerPlan ==
    \A a, b \in AliveMons : mon[a].name = mon[b].name => a = b

----------------------------------------------------------------------------
(* Specification of the settlement verifiers.  The Executor runs with the  *)
(* monitor of one Active plan, whose history holds one earlier execution;  *)
(* the monitor records and deposits one more.  The deposit is two steps,   *)
(* the Depositor's send and the patch that follows its return, and a       *)
(* status lookup is two steps, the call and its answer.  The Quote Service *)
(* settles a deposit address it has seen funds for.  The clock counts      *)
(* hours and moves in steps of ClockStep.                                  *)

\* time.Hour * 24, in hours.
DayHours == 24

\* The hours the clock moves in one step, and the last hour it reaches.
ClockStep == 12
MaxClock == 36

\* The polls of one fast-path verifier this specification follows.
MaxPolls == 1

\* maxAttempts of verifySwapCompletion
maxAttempts == 120

\* The states checkSwapStatus takes for terminal (part_005 499-505).
TerminalSwap == {"SUCCESS", "COMPLETED", "FAILED", "REFUNDED"}

\* The date of an hour of the clock.
DateOf(hour) == hour \div DayHours + 1

\* The condition of verifyPendingSwaps on an execution (part_005 433-435):
\* Deposited or Pending, a deposit address, and less than 24 hours old.
NeedsVerify(e, clock) ==
    /\ e.status \in {ExecutionDeposited, ExecutionPending}
    /\ e.addr # ""
    /\ clock - e.at < DayHours

\* The earlier execution of the plan: any status, with or without a deposit
\* address, recorded at hour 0 or ClockStep of the first day.
OldExecutions ==
    { [NewExecution(Unit, st) EXCEPT !.id = 1, !.date = 1, !.addr = a, !.at = h] :
        st \in ExecStatuses, a \in {"", "old"}, h \in {0, ClockStep} }

VerInit ==
    /\ \E old \in OldExecutions :
          plans = [n \in Names |->
                     [NewPlan(4 * Unit, Unit, 4 * Unit) EXCEPT
                         !.status = StatusActive, !.history = <<old>>, !.count = 1,
                         !.lastDate = 1]]
    /\ today = DateOf(DayHours)
    /\ ret = ""
    /\ running = TRUE
    /\ activePlans = [n \in Names |-> 1]
    /\ mon = [m \in 1..MaxMon |->
                IF m = 1 THEN [NoMon EXCEPT !.name = "p1", !.pc = "wait"] ELSE NoMon]
    /\ sent = <<>>
    /\ disk = Encode(plans)
    /\ tmp = NoFile
    /\ tasks = [t \in 1..MaxTask |-> NoTask]
    /\ log = <<>>
    /\ call = NoCall
    /\ pass = NoPass
    /\ \E st \in {"PROCESSING", "SUCCESS"} :
          ver = [NoVer EXCEPT !.clock = DayHours,
                              !.per = [NoVerifier EXCEPT !.pc = "idle"],
                              !.svc = [a \in {"old"} |-> st]]

VerFrame == UNCHANGED <<disk, tmp, tasks, log, call, pass>>

\* Time passes, between the ticks and polls: no call to the Quote Service or
\* the Depositor stays unanswered for hours.
VerClock ==
    /\ ver.clock + ClockStep <= MaxClock
    /\ ver.per.pc # "poll" /\ ver.fast.pc # "poll"
    /\ \A m \in DOMAIN mon : mon[m].pc \in {"none", "wait"}
    /\ ver' = [ver EXCEPT !.clock = @ + ClockStep]
    /\ today' = DateOf(ver.clock + ClockStep)
    /\ UNCHANGED <<plans, ret, running, activePlans, mon, sent>>
    /\ VerFrame

\* The firm quote answers (part_005 265-287): executeTrade records the
\* Pending execution with the deposit address of the quote, at the hour of
\* the clock; the Quote Service now knows the address.
VerQuote(m, quoteOk, saveOk) ==
    /\ mon[m].pc = "quote"
    /\ IF ~quoteOk
       THEN /\ mon' = [mon EXCEPT ![m].pc = "wait", ![m].amt = 0]
            /\ UNCHANGED <<plans, ret, ver>>
       ELSE /\ Len(plans[mon[m].name].history) < MaxSent
            /\ plans' = [plans EXCEPT ![mon[m].name] =
                           AddExecutionPlan(@, [NewExecution(mon[m].amt, ExecutionPending)
                                                   EXCEPT !.addr = "new", !.at = ver.clock],
                                            NewId, today)]
            /\ ret' = SaveErr(saveOk)
            /\ ver' = [ver EXCEPT !.svc = [a \in DOMAIN @ \cup {"new"} |->
                                             IF a = "new" THEN "PENDING_DEPOSIT" ELSE @[a]]]
            /\ IF saveOk
               THEN mon' = [mon EXCEPT ![m].pc = "deposit", ![m].eid = NewId]
               ELSE mon' = [mon EXCEPT ![m].pc = "wait", ![m].amt = 0]
    /\ UNCHANGED <<today, running, activePlans, sent>>
    /\ VerFrame

\* handleAutoDeposit up to the return of SendDeposit (part_005 309-316): the
\* funds are on their way to the deposit address, or the send failed, or
\* auto-deposit is not enabled for the chain.
VerSend(m, outcome) ==
    /\ mon[m].pc = "deposit"
    /\ sent' = IF outcome = "sent"
               THEN Append(sent, [name |-> mon[m].name, date |-> today, eid |-> mon[m].eid,
                                  amount |-> mon[m].amt,
                                  funds |-> plans[mon[m].name].perTrade])
               ELSE sent
    /\ ver' = IF outcome = "sent" THEN [ver EXCEPT !.svc["new"] = "PROCESSING"] ELSE ver
    /\ mon' = IF outcome = "disabled"
              THEN [mon EXCEPT ![m].pc = "wait", ![m].amt = 0, ![m].eid = 0]
              ELSE [mon EXCEPT ![m].pc = outcome]
    /\ UNCHANGED <<plans, today, ret, running, activePlans>>
    /\ VerFrame

\* handleAutoDeposit after SendDeposit returned (part_005 317-331): the
\* execution is patched Failed or Deposited and, after a deposit, the
\* fast-path verifier of the execution is started, whatever the patch
\* returned.  No execution of the Executor is counted, so the plan is not
\* Completed and the tick ends.
VerPatch(m, saveOk) ==
    /\ mon[m].pc \in {"sent", "failed"}
    /\ LET n == mon[m].name
       IN  /\ plans' = [plans EXCEPT ![n] = DepositPatched(@, mon[m].eid, mon[m].pc)]
           /\ ret' = SaveErr(saveOk)
           /\ ver' = IF mon[m].pc = "sent"
                     THEN [ver EXCEPT !.fast = [pc |-> "wait", name |-> n, id |-> mon[m].eid,
                                                addr |-> "new", attempts |-> 0]]
                     ELSE ver
           /\ mon' = [mon EXCEPT ![m].pc = "wait", ![m].amt = 0, ![m].eid = 0]
    /\ UNCHANGED <<today, running, activePlans, sent>>
    /\ VerFrame

\* The Quote Service settles a deposit address it has funds for.
SvcSettle ==
    /\ \E a \in DOMAIN ver.svc, st \in {"SUCCESS", "FAILED", "REFUNDED"} :
          /\ ver.svc[a] = "PROCESSING"
          /\ ver' = [ver EXCEPT !.svc[a] = st]
    /\ UNCHANGED <<plans, today, ret, running, activePlans, mon, sent>>
    /\ VerFrame

\* The executions of the stored plans: <<plan name, index in the history>>.
AllExecutions ==
    { <<n, i>> \in (DOMAIN plans) \X (1..MaxSent) : i <= Len(plans[n].history) }

\* monitorSwapVerification takes a tick and verifyPendingSwaps comes to an
\* execution that meets its condition: GetSwapStatus is called for its
\* deposit address (part_005 417-437, 471).
PerPick ==
    /\ ver.per.pc = "idle"
    /\ \E x \in AllExecutions :
          LET e == plans[x[1]].history[x[2]]
          IN  /\ NeedsVerify(e, ver.clock)
              /\ ver' = [ver EXCEPT !.per = [@ EXCEPT !.pc = "poll", !.name = x[1],
                                                        !.id = e.id, !.addr = e.addr]]
    /\ UNCHANGED <<plans, today, ret, running, activePlans, mon, sent>>
    /\ VerFrame

\* The plans after checkSwapStatus got the answer of the Quote Service for
\* the verifier v (part_005 471-496): nothing on an error of the lookup,
\* else UpdateExecutionWithSwapStatus.
CheckedPlans(v, ok) ==
    IF ok /\ v.name \in DOMAIN plans
    THEN [plans EXCEPT ![v.name] =
             UpdateExecutionWithSwapStatusPlan(@, v.id, ver.svc[v.addr], today)]
    ELSE plans

\* What checkSwapStatus returns: true for a terminal state that was recorded
\* without an error (part_005 472-509).
CheckedTerminal(v, ok, saveOk) ==
    /\ ok
    /\ saveOk
    /\ v.name \in DOMAIN plans
    /\ FindExecution(plans[v.name], v.id) # 0
    /\ ver.svc[v.addr] \in TerminalSwap

\* The lookup of the periodic verifier answers.
PerAnswer(ok, saveOk) ==
    /\ ver.per.pc = "poll"
    /\ plans' = CheckedPlans(ver.per, ok)
    /\ ret' = IF ok THEN SaveErr(saveOk) ELSE ret
    /\ ver' = [ver EXCEPT !.per = [NoVerifier EXCEPT !.pc = "idle"]]
    /\ UNCHANGED <<today, running, activePlans, mon, sent>>
    /\ VerFrame

\* monitorSwapVerification finds Executor.stopChan closed and returns.
PerExit ==
    /\ ver.per.pc = "idle"
    /\ pass.closed
    /\ ver' = [ver EXCEPT !.per = NoVerifier]
    /\ UNCHANGED <<plans, today, ret, running, activePlans, mon, sent>>
    /\ VerFrame

\* verifySwapCompletion takes a tick of its ticker and calls GetSwapStatus
\* (part_005 453-459, 471).
FastTick ==
    /\ ver.fast.pc = "wait"
    /\ ver.fast.attempts < maxAttempts
    /\ ver' = [ver EXCEPT !.fast.pc = "poll"]
    /\ UNCHANGED <<plans, today, ret, running, activePlans, mon, sent>>
    /\ VerFrame

\* FastAnswer returning on a terminal state whatever the update returned.
FastAnswerStopsOnTerminal(ok, saveOk) ==
    /\ ver.fast.pc = "poll"
    /\ plans' = CheckedPlans(ver.fast, ok)
    /\ ret' = IF ok THEN SaveErr(saveOk) ELSE ret
    /\ ver' = IF ok /\ ver.svc[ver.fast.addr] \in TerminalSwap
              THEN [ver EXCEPT !.fast.pc = "done"]
              ELSE IF ver.fast.attempts + 1 < maxAttempts
              THEN [ver EXCEPT !.fast.pc = "wait", !.fast.attempts = @ + 1]
              ELSE [ver EXCEPT !.fast.pc = "done", !.fast.attempts = @ + 1]
    /\ UNCHANGED <<today, running, activePlans, mon, sent>>
    /\ VerFrame

\* The lookup of the fast-path verifier answers (part_005 457-462): it
\* returns when checkSwapStatus returned true, else it counts the poll and
\* returns when that was the last one.
FastAnswer(ok, saveOk) ==
    /\ ver.fast.pc = "poll"
    /\ plans' = CheckedPlans(ver.fast, ok)
    /\ ret' = IF ok THEN SaveErr(saveOk) ELSE ret
    /\ ver' = IF CheckedTerminal(ver.fast, ok, saveOk)
              THEN [ver EXCEPT !.fast.pc = "done"]
              ELSE IF ver.fast.attempts + 1 < maxAttempts
              THEN [ver EXCEPT !.fast.pc = "wait", !.fast.attempts = @ + 1]
              ELSE [ver EXCEPT !.fast.pc = "done", !.fast.attempts = @ + 1]
    /\ UNCHANGED <<today, running, activePlans, mon, sent>>
    /\ VerFrame

\* verifySwapCompletion finds Executor.stopChan closed and returns.
FastExit ==
    /\ ver.fast.pc = "wait"
    /\ pass.closed
    /\ ver' = [ver EXCEPT !.fast.pc = "done"]
    /\ UNCHANGED <<plans, today, ret, running, activePlans, mon, sent>>
    /\ VerFrame

DoVerQuote ==
    \E m \in DOMAIN mon :
        \/ VerQuote(m, TRUE, TRUE)
        \/ VerQuote(m, TRUE, FALSE)
        \/ VerQuote(m, FALSE, TRUE)
DoVerSend == \E m \in DOMAIN mon, o \in DepositOutcomes : VerSend(m, o)
DoVerPatch == \E m \in DOMAIN mon, saveOk \in BOOLEAN : VerPatch(m, saveOk)
DoPerAnswer ==
    \/ PerAnswer(TRUE, TRUE)
    \/ PerAnswer(TRUE, FALSE)
    \/ PerAnswer(FALSE, TRUE)
DoFastAnswer ==
    \/ FastAnswer(TRUE, TRUE)
    \/ FastAnswer(TRUE, FALSE)
    \/ FastAnswer(FALSE, TRUE)
VerFastTick == ver.fast.attempts < MaxPolls /\ FastTick

VerNext ==
    \/ VerClock
    \/ DoMonTickBegin
    \/ DoMonPrice
    \/ DoVerQuote
    \/ DoVerSend
    \/ DoVerPatch
    \/ SvcSettle
    \/ PerPick
    \/ DoPerAnswer
    \/ PerExit
    \/ VerFastTick
    \/ DoFastAnswer
    \/ FastExit
    \/ ExecStop
    \/ DoMonExit

VerSpec == VerInit /\ [][VerNext]_vars

\* C33: an execution whose status is Completed or Failed keeps that status in
\* every step of the monitor's deposit patch, the periodic verifier and the
\* fast-path verifier, however they interleave.
C33_TerminalExecutionStays ==
    [][\A x \in AllExecutions :
          LET e == plans[x[1]].history[x[2]]
          IN  e.status \in {ExecutionCompleted, ExecutionFailed}
                 => plans'[x[1]].history[x[2]].status = e.status]_vars

\* The execution the verifier v asked the Quote Service about.
Polled(v) == plans[v.name].history[FindExecution(plans[v.name], v.id)]

\* C31: the periodic verifier looks up, and patches with the answer, only
\* executions that are Pending or Deposited, carry a deposit address and are
\* less than 24 hours old: from the call of the status lookup to the patch
\* that follows its answer the execution is none that is Completed, Failed
\* or older.
C31_PeriodicVerifierScope ==
    ver.per.pc = "poll" => NeedsVerify(Polled(ver.per), ver.clock)

----------------------------------------------------------------------------
(* Specification of one fast-path verifier, with fairness.  The monitor of *)
(* the plan has recorded an execution and is about to send its deposit;    *)
(* the verifier started for it polls up to maxAttempts times.  The ticker   *)
(* of the verifier fires and every status lookup is answered or fails.     *)

FastInit ==
    /\ plans = [n \in Names |->
                  AddExecutionPlan([NewPlan(4 * Unit, Unit, 4 * Unit) EXCEPT
                                       !.status = StatusActive],
                                   [NewExecution(Unit, ExecutionPending) EXCEPT
                                       !.addr = "new", !.at = DayHours],
                                   1, DateOf(DayHours))]
    /\ today = DateOf(DayHours)
    /\ ret = ""
    /\ running = TRUE
    /\ activePlans = [n \in Names |-> 1]
    /\ mon = [m \in 1..MaxMon |->
                IF m = 1 THEN [NoMon EXCEPT !.name = "p1", !.pc = "deposit",
                                            !.amt = Unit, !.eid = 1]
                ELSE NoMon]
    /\ sent = <<>>
    /\ disk = Encode(plans)
    /\ tmp = NoFile
    /\ tasks = [t \in 1..MaxTask |-> NoTask]
    /\ log = <<>>
    /\ call = NoCall
    /\ pass = NoPass
    /\ ver = [NoVer EXCEPT !.clock = DayHours,
                           !.svc = [a \in {"new"} |-> "PENDING_DEPOSIT"]]

FastNext ==
    \/ DoVerSend
    \/ DoVerPatch
    \/ SvcSettle
    \/ FastTick
    \/ DoFastAnswer
    \/ FastExit
    \/ ExecStop

FastSpec ==
    FastInit /\ [][FastNext]_vars /\ WF_vars(FastTick) /\ WF_vars(DoFastAnswer)

\* A fast-path verifier runs only for an execution whose deposit was sent.
FastAfterDeposit ==
    ver.fast.pc # "none" =>
        \E i \in 1..Len(sent) : sent[i].eid = ver.fast.id /\ sent[i].name = ver.fast.name

\* The verifier leaves its wait without a poll only when the Executor was
\* stopped.
FastLeavesOnStop ==
    [][(ver.fast.pc = "wait" /\ ver'.fast.pc = "done") => pass.closed]_vars

\* A verifier that was started returns.
FastTerminates == (ver.fast.pc \in {"wait", "poll"}) ~> (ver.fast.pc = "done")

====
